---------------------------- MODULE Spec2Model ----------------------------
(***************************************************************************)
(* Model of the inboxy mailbox tools: clean.py (list_message_ids,          *)
(* batch_get, delete_by_query, archive_by_query) and the inboxy package    *)
(* (GmailClient.get_emails / delete_email / archive_email, cli preview,    *)
(* EmailAI.analyze_email / batch_analyze with the models of models.py).    *)
(* The remote mailbox provider is the environment: every remote call       *)
(* either succeeds or raises HttpError, chosen nondeterministically.       *)
(* One action is one remote call (or one prompt) together with the local   *)
(* code that runs up to the next remote call, prompt, return or raise.     *)
(***************************************************************************)
EXTENDS Integers, Sequences, FiniteSets, TLC

VARIABLES
    mailbox,      \* provider: message id -> set of label ids, for existing messages
    order,        \* provider: its native listing order of all message ids ever created
    tool,         \* "clean" (clean.py), "cli" (inboxy cli), "ai" (EmailAI), or "fn" for a bare function call
    runs,         \* invocations started so far in this session
    pc,           \* position of the running invocation
    cmd,          \* the operation being run
    query,        \* its query
    limit,        \* list_message_ids, batch_analyze: limit (None or Some(n))
    pages,        \* provider: the pages it serves for the running listing
    ids,          \* list_message_ids: ids collected so far; afterwards the caller's ids
    page_token,   \* list_message_ids: page_token (None or Some(k))
    calls,        \* remote calls issued by the running invocation, in order
    ret,          \* value returned by the invocation (None or Some(value))
    err,          \* exception that left the invocation ("none" when there is none)
    confirm,      \* what the caller answered at the prompt (None before the prompt)
    inbox_id,     \* archive_by_query: label_map.get("INBOX") (None when absent)
    i,            \* loop position: index of the next chunk / message (0-based offset in batch_get)
    j,            \* batch_get: position inside the current chunk
    items,        \* batch_get: items; get_emails: full_messages; EmailAI: analyses
    opts,         \* cli preview: its options (limit, delete, archive); EmailAI: its allow-lists
    messages,     \* cli preview: messages, the list get_emails returned; EmailAI: the messages handed in
    now,          \* the clock (seconds)
    cache         \* .cache directory: cache key -> [payload, mtime]

vars == << mailbox, order, tool, runs, pc, cmd, query, limit, pages, ids,
           page_token, calls, ret, err, confirm, inbox_id, i, j, items,
           opts, messages, now, cache >>

---------------------------------------------------------------------------
(* Python values *)

None == << >>

Some(x) == << x >>

\* Python truthiness of an int | None (clean.py:78 "if limit and ...").
Truthy(v) == v # None /\ v[1] # 0

TakeOneMore(seq, n) == SubSeq(seq, 1, IF n + 1 < Len(seq) THEN n + 1 ELSE Len(seq))

\* seq[:n] for n >= 0
Take(seq, n) == SubSeq(seq, 1, IF n < Len(seq) THEN n ELSE Len(seq))

SliceOverlap(seq, a, b) ==
    SubSeq(seq, IF a > 0 THEN a ELSE 1, IF b < Len(seq) THEN b ELSE Len(seq))

\* seq[a:b] with 0-based a <= b
Slice(seq, a, b) ==
    SubSeq(seq, a + 1, IF b < Len(seq) THEN b ELSE Len(seq))

RECURSIVE Concat(_)
Concat(ss) == IF ss = << >> THEN << >> ELSE Head(ss) \o Concat(Tail(ss))

Range(seq) == { seq[k] : k \in 1..Len(seq) }

---------------------------------------------------------------------------
(* Bounds *)

MaxPages == 2

MaxPageLen == 2

MaxLimit == 3

MsgIds == {1, 2}

RECURSIVE SeqsUpTo(_, _)
SeqsUpTo(S, n) ==
    IF n = 0 THEN { << >> }
    ELSE LET shorter == SeqsUpTo(S, n - 1)
         IN  shorter \cup { Append(s, x) : s \in { t \in shorter : Len(t) = n - 1 }, x \in S }

MaxRuns == 2

MaxSmall == 2

MaxFullChunks == 2

MaxHydrate == 3

PageValues == SeqsUpTo(MsgIds, MaxPageLen)

PageSeqs == SeqsUpTo(PageValues, MaxPages) \ { << >> }

Limits == { None } \cup { Some(n) : n \in 0..MaxLimit }

---------------------------------------------------------------------------
(* Remote calls *)

\* One remote call as the provider saw it, with its outcome.
Call(op, args, ok) == [ op |-> op, args |-> args, ok |-> ok ]

\* messages().list(q, maxResults, pageToken): the page the token names and
\* the token of the page after it (None after the last page).
ProviderList(token) ==
    LET k == IF token = None THEN 1 ELSE token[1]
    IN  [ messages      |-> pages[k],
          nextPageToken |-> IF k < Len(pages) THEN Some(k + 1) ELSE None ]

ListPageSize == 500

ChunkSize == 500

\* What a query selects: "in:inbox" the messages carrying the INBOX label,
\* "all" every message.
Matches(q, m) == q = "all" \/ "INBOX" \in mailbox[m]

Matching(q) ==
    SelectSeq(order, LAMBDA m : m \in DOMAIN mailbox /\ Matches(q, m))

\* The pages the provider serves for q with maxResults = size: the matching
\* messages in its native order, size per page; one empty page when nothing
\* matches.
ProviderPages(q, size) ==
    LET all == Matching(q)
        n   == (Len(all) + size - 1) \div size
    IN  IF all = << >> THEN << << >> >>
        ELSE [ k \in 1..n |-> Slice(all, (k - 1) * size, k * size) ]

\* labels().list: the provider's labels (system labels have fixed ids).
ProviderLabels ==
    { [ name |-> "INBOX", id |-> "INBOX" ],
      [ name |-> "TRASH", id |-> "TRASH" ],
      [ name |-> "UNREAD", id |-> "UNREAD" ],
      [ name |-> "Receipts", id |-> "Label_1" ] }

\* messages().batchDelete / messages().delete: the messages are gone for good.
ProviderDelete(targets) ==
    [ m \in DOMAIN mailbox \ targets |-> mailbox[m] ]

\* messages().batchModify / messages().modify
ProviderModify(targets, removeLabelIds, addLabelIds) ==
    [ m \in DOMAIN mailbox |->
        IF m \in targets THEN (mailbox[m] \ removeLabelIds) \cup addLabelIds
        ELSE mailbox[m] ]

\* A call on one message fails when the message does not exist; any call may
\* fail for a reason of the transport's.
Outcomes(m) == IF m \in DOMAIN mailbox THEN BOOLEAN ELSE { FALSE }

---------------------------------------------------------------------------
(* clean.py list_message_ids *)

\* What the code that called list_message_ids does with its result, up to its
\* next remote call, prompt or return: list_message_ids itself returns it
\* (clean.py:79,83); delete_by_query and archive_by_query return at once when
\* it is empty and prompt otherwise (clean.py:193-197, 209-213).
AfterList(value) ==
    /\ ids' = value
    /\ UNCHANGED << page_token >>
    /\ IF cmd = "list_message_ids"
       THEN /\ ret' = Some(value)
            /\ pc' = "done"
       ELSE /\ ret' = ret
            /\ pc' = IF value = << >> THEN "done" ELSE "confirm"

LimitHitPassed(lim, collected) == Truthy(lim) /\ Len(collected) > lim[1]

\* clean.py:78: if limit and len(ids) >= limit
LimitHit(lim, collected) == Truthy(lim) /\ Len(collected) >= lim[1]

\* One iteration of the while loop: the list call, then the lines after it.
list_message_ids ==
    /\ pc = "list"
    /\ \E ok \in BOOLEAN :
         /\ calls' = Append(calls,
                Call("list", [ q |-> query, maxResults |-> ListPageSize,
                               pageToken |-> page_token ], ok))
         /\ IF ~ok
            THEN \* call.execute() raises: nothing is returned
                 /\ pc' = "raised"
                 /\ err' = "HttpError"
                 /\ UNCHANGED << ids, page_token, ret >>
            ELSE LET res == ProviderList(page_token)
                     collected == ids \o res.messages
                 IN  /\ err' = err
                     /\ IF LimitHit(limit, collected)
                        THEN AfterList(Take(collected, limit[1]))
                        ELSE IF res.nextPageToken = None
                        THEN AfterList(collected)
                        ELSE /\ ids' = collected
                             /\ page_token' = res.nextPageToken
                             /\ pc' = "list"
                             /\ ret' = ret
    /\ UNCHANGED << mailbox, order, tool, runs, cmd, query, limit, pages,
                    confirm, inbox_id, i, j, items, opts, messages, now, cache >>

---------------------------------------------------------------------------
(* clean.py delete_by_query / archive_by_query *)

Whitespace == { " ", "\t", "\n" }

RECURSIVE LStrip(_)
LStrip(s) == IF s # << >> /\ Head(s) \in Whitespace THEN LStrip(Tail(s)) ELSE s

RECURSIVE RStrip(_)
RStrip(s) ==
    IF s # << >> /\ s[Len(s)] \in Whitespace
    THEN RStrip(SubSeq(s, 1, Len(s) - 1)) ELSE s

\* str.strip()
Strip(s) == RStrip(LStrip(s))

LowerChar(c) ==
    CASE c = "Y" -> "y" [] c = "E" -> "e" [] c = "S" -> "s"
      [] c = "N" -> "n" [] c = "O" -> "o" [] OTHER -> c

\* str.lower()
Lower(s) == [ k \in 1..Len(s) |-> LowerChar(s[k]) ]

\* What the operator may type at the prompt (a string is its characters).
ConfirmInputs ==
    { << "y", "e", "s" >>, << " ", "Y", "e", "S", "\n" >>, << >>,
      << "n", "o" >>, << "y" >>, << "y", "e", "s", "!" >> }

ConfirmedAnyAnswer(inp) == Lower(Strip(inp)) # << "n", "o" >>

\* clean.py:197-198 / 213-214: confirm = input(...).strip().lower(); confirm == "yes"
Confirmed(inp) == Lower(Strip(inp)) = << "y", "e", "s" >>

\* _chunked(iterable, n): the slices iterable[i:i+n] for i in range(0, len, n)
Chunked(iterable, n) ==
    [ k \in 1..((Len(iterable) + n - 1) \div n) |->
        Slice(iterable, (k - 1) * n, (k - 1) * n + n) ]

\* get_label_map(service).get(name)
LabelMapGet(name) ==
    IF \E l \in ProviderLabels : l.name = name
    THEN Some((CHOOSE l \in ProviderLabels : l.name = name).id)
    ELSE None

ArchiveBodyTrash(batch) ==
    [ ids |-> batch,
      removeLabelIds |-> { IF inbox_id = None THEN "None" ELSE inbox_id[1] },
      addLabelIds |-> { "TRASH" } ]

\* The body of archive_by_query's batchModify call (clean.py:222).
ArchiveBody(batch) ==
    [ ids |-> batch,
      removeLabelIds |-> { IF inbox_id = None THEN "None" ELSE inbox_id[1] },
      addLabelIds |-> { } ]

DeleteBodyTail(batch) == [ ids |-> Tail(batch) ]

\* The body of delete_by_query's batchDelete call (clean.py:202).
DeleteBody(batch) == [ ids |-> batch ]

\* No invocation is running: the session has not started one, or the last one
\* returned or raised.
AtShell == pc \in { "idle", "done", "raised" }

\* The command starts: delete_by_query / archive_by_query call list_message_ids(q=query).
clean_start ==
    /\ AtShell
    /\ tool = "clean"
    /\ runs < MaxRuns
    /\ \E c \in { "delete_by_query", "archive_by_query" }, q \in { "in:inbox", "all" } :
         /\ cmd' = c
         /\ query' = q
         /\ pages' = ProviderPages(q, ListPageSize)
    /\ runs' = runs + 1
    /\ pc' = "list"
    /\ limit' = None
    /\ ids' = << >>
    /\ page_token' = None
    /\ calls' = << >>
    /\ ret' = None
    /\ err' = "none"
    /\ confirm' = None
    /\ inbox_id' = None
    /\ i' = 0
    /\ j' = 0
    /\ items' = << >>
    /\ UNCHANGED << mailbox, order, tool, opts, messages, now, cache >>

\* The prompt of delete_by_query / archive_by_query and the test of the answer.
clean_confirm ==
    /\ pc = "confirm"
    /\ tool = "clean"
    /\ \E inp \in ConfirmInputs :
         /\ confirm' = Some(inp)
         /\ IF ~Confirmed(inp)
            THEN /\ pc' = "done"        \* "Aborted."
                 /\ i' = i
            ELSE /\ pc' = IF cmd = "delete_by_query" THEN "batch" ELSE "labels"
                 /\ i' = 1
    /\ UNCHANGED << mailbox, order, tool, runs, cmd, query, limit, pages, ids,
                    page_token, calls, ret, err, inbox_id, j, items, opts,
                    messages, now, cache >>

\* archive_by_query: label_map = get_label_map(service); inbox_id = label_map.get("INBOX")
get_label_map ==
    /\ pc = "labels"
    /\ \E ok \in BOOLEAN :
         /\ calls' = Append(calls, Call("labels.list", [ userId |-> "me" ], ok))
         /\ IF ok
            THEN /\ inbox_id' = LabelMapGet("INBOX")
                 /\ pc' = "batch"
                 /\ err' = err
            ELSE /\ inbox_id' = inbox_id
                 /\ pc' = "raised"
                 /\ err' = "HttpError"
    /\ UNCHANGED << mailbox, order, tool, runs, cmd, query, limit, pages, ids,
                    page_token, ret, confirm, i, j, items, opts, messages,
                    now, cache >>

\* Where the for loop over _chunked(ids, 500) goes after chunk i's call returned.
NextChunkPc == IF i < Len(Chunked(ids, ChunkSize)) THEN "batch" ELSE "stats"

\* delete_by_query: one iteration of "for batch in _chunked(ids, 500)".
\* The call is not inside a try: an HttpError leaves the function.
delete_by_query ==
    /\ pc = "batch"
    /\ cmd = "delete_by_query"
    /\ LET batch == Chunked(ids, ChunkSize)[i]
       IN  \E ok \in BOOLEAN :
             /\ calls' = Append(calls, Call("batchDelete", DeleteBody(batch), ok))
             /\ IF ok
                THEN /\ mailbox' = ProviderDelete(Range(batch))
                     /\ pc' = NextChunkPc
                     /\ i' = i + 1
                     /\ err' = err
                ELSE /\ mailbox' = mailbox
                     /\ pc' = "raised"
                     /\ i' = i
                     /\ err' = "HttpError"
    /\ UNCHANGED << order, tool, runs, cmd, query, limit, pages, ids, page_token,
                    ret, confirm, inbox_id, j, items, opts, messages, now, cache >>

\* archive_by_query: one iteration of "for batch in _chunked(ids, 500)".
archive_by_query ==
    /\ pc = "batch"
    /\ cmd = "archive_by_query"
    /\ LET body == ArchiveBody(Chunked(ids, ChunkSize)[i])
       IN  \E ok \in BOOLEAN :
             /\ calls' = Append(calls, Call("batchModify", body, ok))
             /\ IF ok
                THEN /\ mailbox' = ProviderModify(Range(body.ids),
                                       body.removeLabelIds, body.addLabelIds)
                     /\ pc' = NextChunkPc
                     /\ i' = i + 1
                     /\ err' = err
                ELSE /\ mailbox' = mailbox
                     /\ pc' = "raised"
                     /\ i' = i
                     /\ err' = "HttpError"
    /\ UNCHANGED << order, tool, runs, cmd, query, limit, pages, ids, page_token,
                    ret, confirm, inbox_id, j, items, opts, messages, now, cache >>

\* The closing inbox_stats(service) of delete_by_query / archive_by_query.
inbox_stats ==
    /\ pc = "stats"
    /\ \E ok \in BOOLEAN :
         /\ calls' = Append(calls, Call("labels.list", [ userId |-> "me" ], ok))
         /\ pc' = IF ok THEN "done" ELSE "raised"
         /\ err' = IF ok THEN err ELSE "HttpError"
    /\ UNCHANGED << mailbox, order, tool, runs, cmd, query, limit, pages, ids,
                    page_token, ret, confirm, inbox_id, i, j, items, opts,
                    messages, now, cache >>

---------------------------------------------------------------------------
(* inboxy: GmailClient.get_emails, delete_email, archive_email; cli preview *)

cache_ttl == 3600

CliMutateMax == 500

CacheKeyOfQuery(q, max_results) == << q >>

\* _get_cache_key(query, max_results): md5 of f"{query}_{max_results}", the
\* text made of the query, "_" and the decimal digits of max_results (an int).
\* The digest is taken to be collision free, so the key is the text.
CacheKey(q, max_results) == << q, "_", ToString(max_results) >>

\* _get_cached_emails(cache_key): the payload of a fresh cache file, else None.
\* clock is datetime.now().timestamp() at the time of the call.
GetCachedEmails(key, clock) ==
    IF key \in DOMAIN cache /\ clock - cache[key].mtime < cache_ttl
    THEN Some(cache[key].payload)
    ELSE None

CacheEmailsButLast(key, emails) ==
    [ k \in DOMAIN cache \cup { key } |->
        IF k = key
        THEN [ payload |-> SubSeq(emails, 1, Len(emails) - 1), mtime |-> now ]
        ELSE cache[k] ]

\* _cache_emails(cache_key, emails): the file is written (over any old one).
CacheEmails(key, emails) ==
    [ k \in DOMAIN cache \cup { key } |->
        IF k = key THEN [ payload |-> emails, mtime |-> now ] ELSE cache[k] ]

\* The message record messages().get returns (format = "full").
Msg(m) == [ id |-> m ]

MaxResultsLimit(o) == o.limit

\* cli.py:193: max_results = limit if not (delete or archive) else 500
MaxResults(o) == IF ~(o.delete \/ o.archive) THEN o.limit ELSE CliMutateMax

\* preview after get_emails returned msgs (cli.py:195-230, 246-247): nothing
\* more when the list is empty or no action is asked for, else the prompt.
AfterGetEmails(o, msgs) ==
    /\ messages' = msgs
    /\ pc' = IF msgs = << >> THEN "done"
             ELSE IF o.delete \/ o.archive THEN "cli_confirm" ELSE "done"

\* The values of --limit (cli.py:132, default 20): the default, and in the
\* preview sessions also a limit below the size of the listings.
PreviewLimits == IF tool = "cli" THEN { 20 } ELSE { 1, 20 }

\* The options of an inboxy preview run: --limit, --delete, --archive.
PreviewOptions ==
    { [ limit |-> lim, delete |-> del, archive |-> arc ] :
        lim \in PreviewLimits, del \in BOOLEAN, arc \in BOOLEAN }

\* Time that passed since the previous invocation of the session.
Elapsed == IF runs = 0 THEN { 0 } ELSE { 0, cache_ttl }

\* inboxy preview starts: GmailClient(), then get_emails(query, max_results)
\* up to its list call; a fresh, non-empty cache entry is returned at once.
preview_start ==
    /\ AtShell
    /\ tool \in { "cli", "preview" }
    /\ runs < MaxRuns
    /\ \E q \in { "in:inbox", "all" }, o \in PreviewOptions, d \in Elapsed :
         LET key == CacheKey(q, MaxResults(o))
             cached == GetCachedEmails(key, now + d)
         IN  /\ now' = now + d
             /\ query' = q
             /\ opts' = Some(o)
             /\ IF cached # None /\ cached[1] # << >>
                THEN AfterGetEmails(o, cached[1])
                ELSE /\ pc' = "ge_list"
                     /\ messages' = << >>
    /\ cmd' = "preview"
    /\ runs' = runs + 1
    /\ limit' = None
    /\ pages' = << >>
    /\ ids' = << >>
    /\ page_token' = None
    /\ calls' = << >>
    /\ ret' = None
    /\ err' = "none"
    /\ confirm' = None
    /\ inbox_id' = None
    /\ i' = 0
    /\ j' = 0
    /\ items' = << >>
    /\ UNCHANGED << mailbox, order, tool, cache >>

\* get_emails: the list call (gmail.py:91-100). An HttpError is caught by the
\* outer except, which returns [] (gmail.py:134-136).
get_emails_list ==
    /\ pc = "ge_list"
    /\ LET o == opts[1]
           max_results == MaxResults(o)
       IN  \E ok \in BOOLEAN :
             /\ calls' = Append(calls,
                    Call("list", [ q |-> query, maxResults |-> max_results,
                                   pageToken |-> None ], ok))
             /\ IF ~ok
                THEN /\ AfterGetEmails(o, << >>)
                     /\ UNCHANGED << ids, i >>
                ELSE LET found == ProviderPages(query, max_results)[1]
                     IN  IF found = << >>
                         THEN /\ AfterGetEmails(o, << >>)
                              /\ UNCHANGED << ids, i >>
                         ELSE /\ ids' = found
                              /\ i' = 1
                              /\ pc' = "ge_get"
                              /\ messages' = messages
    /\ UNCHANGED << mailbox, order, tool, runs, cmd, query, limit, pages,
                    page_token, ret, err, confirm, inbox_id, j, items, opts,
                    now, cache >>

\* The outcomes of a call of get_emails or preview on one message: as
\* Outcomes, but the transport fails only on the messages 1..MaxSmall (a
\* mailbox of more messages than that is long: see InitPreview).
MessageOutcomes(m) == IF m <= MaxSmall THEN Outcomes(m) ELSE Outcomes(m) \ { FALSE }

\* gmail.py:115-125: try: full_messages.append(get(...)) except HttpError: print
FullMessages(acc, mid, ok) == IF ok THEN Append(acc, Msg(mid)) ELSE acc

\* get_emails: one iteration of the fetch loop (gmail.py:114-125), and after
\* the last one the cache write and the return (gmail.py:128-132).
get_emails_get ==
    /\ pc = "ge_get"
    /\ LET o == opts[1]
           mid == ids[i]
       IN  \E ok \in MessageOutcomes(mid) :
             LET full_messages == FullMessages(items, mid, ok)
             IN  /\ calls' = Append(calls,
                        Call("get", [ id |-> mid, format |-> "full" ], ok))
                 /\ items' = full_messages
                 /\ IF i < Len(ids)
                    THEN /\ i' = i + 1
                         /\ pc' = "ge_get"
                         /\ UNCHANGED << messages, cache >>
                    ELSE /\ i' = i
                         /\ cache' = CacheEmails(CacheKey(query, MaxResults(o)),
                                                 full_messages)
                         /\ AfterGetEmails(o, full_messages)
    /\ UNCHANGED << mailbox, order, tool, runs, cmd, query, limit, pages, ids,
                    page_token, ret, err, confirm, inbox_id, j, opts, now >>

\* cli.py:230, 247: if click.confirm(...)
Proceeds(answer) == answer

\* The click.confirm prompt of preview --delete / --archive.
cli_confirm ==
    /\ pc = "cli_confirm"
    /\ \E answer \in BOOLEAN :
         /\ confirm' = Some(answer)
         /\ pc' = IF Proceeds(answer) THEN "cli_mutate" ELSE "done"
         /\ i' = IF Proceeds(answer) THEN 1 ELSE i
    /\ UNCHANGED << mailbox, order, tool, runs, cmd, query, limit, pages, ids,
                    page_token, calls, ret, err, inbox_id, j, items, opts,
                    messages, now, cache >>

ArchiveEmailBodyRead == [ removeLabelIds |-> { "INBOX", "UNREAD" }, addLabelIds |-> { } ]

\* The body of archive_email's modify call (gmail.py:156): no label is added.
ArchiveEmailBody == [ removeLabelIds |-> { "INBOX" }, addLabelIds |-> { } ]

\* The arguments of archive_email's modify call (gmail.py:153-157).
ArchiveEmailArgs(mid) ==
    [ ids |-> << mid >>,
      removeLabelIds |-> ArchiveEmailBody.removeLabelIds,
      addLabelIds |-> ArchiveEmailBody.addLabelIds ]

\* The arguments of delete_email's delete call (gmail.py:141-144).
DeleteEmailArgs(mid) == [ ids |-> << mid >> ]

\* cli.py:228, 246: "if delete: ... elif archive: ..."
CliAction(o) == IF o.delete THEN "delete" ELSE "modify"

\* preview: one iteration of "for i, msg in enumerate(messages)", calling
\* gmail.delete_email / gmail.archive_email, which catch HttpError and
\* return False.
cli_mutate ==
    /\ pc = "cli_mutate"
    /\ LET mid == messages[i].id
           op  == CliAction(opts[1])
       IN  \E ok \in MessageOutcomes(mid) :
             /\ calls' = Append(calls,
                    Call(op, IF op = "delete" THEN DeleteEmailArgs(mid)
                             ELSE ArchiveEmailArgs(mid), ok))
             /\ mailbox' =
                    IF ~ok THEN mailbox
                    ELSE IF op = "delete" THEN ProviderDelete({ mid })
                    ELSE ProviderModify({ mid }, ArchiveEmailBody.removeLabelIds,
                                        ArchiveEmailBody.addLabelIds)
             /\ i' = i + 1
             /\ pc' = IF i < Len(messages) THEN "cli_mutate" ELSE "done"
    /\ UNCHANGED << order, tool, runs, cmd, query, limit, pages, ids, page_token,
                    ret, err, confirm, inbox_id, j, items, opts, messages, now,
                    cache >>

---------------------------------------------------------------------------
(* The session: a mailbox, one tool, a few invocations one after another *)

LabelChoices == { { "INBOX", "UNREAD" }, { "UNREAD" } }

MailboxSizes(t) ==
    (0..MaxSmall) \cup
    IF t = "clean"
    THEN { ChunkSize * k + d : k \in 1..MaxFullChunks, d \in { -1, 0, 1 } }
    ELSE { }

InitMutate ==
    /\ tool \in { "clean", "cli" }
    /\ \E n \in MailboxSizes(tool) :
         /\ order = [ k \in 1..n |-> n + 1 - k ]
         /\ mailbox \in IF n <= MaxSmall THEN [ 1..n -> LabelChoices ]
                        ELSE { [ m \in 1..n |-> { "INBOX", "UNREAD" } ] }
    /\ runs = 0
    /\ pc = "idle"
    /\ cmd = "none"
    /\ query = "none"
    /\ limit = None
    /\ pages = << >>
    /\ ids = << >>
    /\ page_token = None
    /\ calls = << >>
    /\ ret = None
    /\ err = "none"
    /\ confirm = None
    /\ inbox_id = None
    /\ i = 0
    /\ j = 0
    /\ items = << >>
    /\ opts = None
    /\ messages = << >>
    /\ now = 0
    /\ cache = << >>

NextMutate ==
    \/ clean_start
    \/ list_message_ids
    \/ clean_confirm
    \/ get_label_map
    \/ delete_by_query
    \/ archive_by_query
    \/ inbox_stats
    \/ preview_start
    \/ get_emails_list
    \/ get_emails_get
    \/ cli_confirm
    \/ cli_mutate

SpecMutate == InitMutate /\ [][NextMutate]_vars

---------------------------------------------------------------------------
(* clean.py batch_get *)

HydrateChunk == 100

\* The identifiers handed to batch_get: message 3 does not exist.
HydrateIds == MsgIds \cup { 3 }

MaxHydrateChunks == 2

\* A long identifier list: the first identifier of every chunk of 100 is
\* message 1 and the last is message 2, each fetched with either outcome; all
\* the others name message 3, which does not exist.
LongInput(n) ==
    [ k \in 1..n |->
        IF k % HydrateChunk = 1 THEN 1
        ELSE IF k % HydrateChunk = 0 THEN 2 ELSE 3 ]

\* The identifier lists handed to batch_get: every short one, and long ones
\* that end just before, at and just after a chunk boundary.
HydrateInputs ==
    SeqsUpTo(HydrateIds, MaxHydrate) \cup
    { LongInput(HydrateChunk * k + d) : k \in 1..MaxHydrateChunks, d \in { -1, 0, 1 } }

\* The message record messages().get returns.
Record(m) == [ id |-> m ]

BatchGetItemsPlaceholder(acc, mid, ok) ==
    Append(acc, IF ok THEN Record(mid) ELSE [ id |-> 0 ])

\* clean.py:92-101: try: items.append(get(...)) except HttpError: print warn
BatchGetItems(acc, mid, ok) == IF ok THEN Append(acc, Record(mid)) ELSE acc

\* batch_get(service, ids) is called: the loops are entered, or items is
\* returned at once when ids is empty.
batch_get_start ==
    /\ pc = "idle"
    /\ tool = "fn"
    /\ cmd = "batch_get"
    /\ \E input \in HydrateInputs :
         /\ ids' = input
         /\ pc' = IF input = << >> THEN "done" ELSE "bg_get"
         /\ ret' = IF input = << >> THEN Some(<< >>) ELSE ret
    /\ i' = 0
    /\ j' = 1
    /\ UNCHANGED << mailbox, order, tool, runs, cmd, query, limit, pages,
                    page_token, calls, err, confirm, inbox_id, items, opts,
                    messages, now, cache >>

\* One iteration of "for mid in chunk" (clean.py:91-101): the get call inside
\* try / except HttpError, then the loop tests, the pause after a chunk and,
\* after the last chunk, the return.
batch_get ==
    /\ pc = "bg_get"
    /\ LET chunk == Slice(ids, i, i + HydrateChunk)
           mid   == chunk[j]
       IN  \E ok \in Outcomes(mid) :
             LET got == BatchGetItems(items, mid, ok)
             IN  /\ calls' = Append(calls,
                        Call("get", [ id |-> mid, format |-> "metadata" ], ok))
                 /\ items' = got
                 /\ IF j < Len(chunk)
                    THEN /\ j' = j + 1
                         /\ UNCHANGED << i, pc, ret >>
                    ELSE IF i + HydrateChunk < Len(ids)
                    THEN /\ i' = i + HydrateChunk
                         /\ j' = 1
                         /\ UNCHANGED << pc, ret >>
                    ELSE /\ ret' = Some(got)
                         /\ pc' = "done"
                         /\ UNCHANGED << i, j >>
    /\ UNCHANGED << mailbox, order, tool, runs, cmd, query, limit, pages, ids,
                    page_token, err, confirm, inbox_id, opts, messages, now,
                    cache >>

RECURSIVE Fetched(_, _, _, _)
\* What the fetches of flat[lo..hi] add to items, ok[k] telling whether fetch
\* k succeeded (the range is halved to keep the evaluation shallow).
Fetched(flat, ok, lo, hi) ==
    IF lo > hi THEN << >>
    ELSE IF lo = hi THEN BatchGetItems(<< >>, flat[lo], ok[lo])
    ELSE LET mid == (lo + hi) \div 2
         IN  Fetched(flat, ok, lo, mid) \o Fetched(flat, ok, mid + 1, hi)

RECURSIVE Joined(_, _, _)
\* chunks[lo] \o ... \o chunks[hi]
Joined(chunks, lo, hi) ==
    IF lo > hi THEN << >>
    ELSE IF lo = hi THEN chunks[lo]
    ELSE LET mid == (lo + hi) \div 2
         IN  Joined(chunks, lo, mid) \o Joined(chunks, mid + 1, hi)

\* batch_get with chunks of size identifiers in place of 100: the chunks
\* ids[i:i+size] for i in range(0, len(ids), size) are fetched one identifier
\* after the other, fetch k having the outcome ok[k]. The result is the list
\* returned and the get calls issued.
BatchGetWith(size, input, ok) ==
    LET chunks == [ k \in 1..((Len(input) + size - 1) \div size) |->
                      Slice(input, (k - 1) * size, (k - 1) * size + size) ]
        flat   == Joined(chunks, 1, Len(chunks))
    IN  [ items |-> Fetched(flat, ok, 1, Len(flat)),
          calls |-> [ k \in 1..Len(flat) |->
                        Call("get", [ id |-> flat[k], format |-> "metadata" ], ok[k]) ] ]

InitHydrate ==
    /\ mailbox = [ m \in MsgIds |-> { "INBOX" } ]
    /\ order = << >>
    /\ tool = "fn"
    /\ runs = 1
    /\ pc = "idle"
    /\ cmd = "batch_get"
    /\ query = "none"
    /\ limit = None
    /\ pages = << >>
    /\ ids = << >>
    /\ page_token = None
    /\ calls = << >>
    /\ ret = None
    /\ err = "none"
    /\ confirm = None
    /\ inbox_id = None
    /\ i = 0
    /\ j = 0
    /\ items = << >>
    /\ opts = None
    /\ messages = << >>
    /\ now = 0
    /\ cache = << >>

NextHydrate == batch_get_start \/ batch_get

SpecHydrate == InitHydrate /\ [][NextHydrate]_vars

InitList ==
    /\ mailbox = << >>
    /\ order = << >>
    /\ tool = "fn"
    /\ runs = 1
    /\ pc = "list"
    /\ cmd = "list_message_ids"
    /\ query = "q"
    /\ limit \in Limits
    /\ pages \in PageSeqs
    /\ ids = << >>
    /\ page_token = None
    /\ calls = << >>
    /\ ret = None
    /\ err = "none"
    /\ confirm = None
    /\ inbox_id = None
    /\ i = 0
    /\ j = 0
    /\ items = << >>
    /\ opts = None
    /\ messages = << >>
    /\ now = 0
    /\ cache = << >>

NextList == list_message_ids

SpecList == InitList /\ [][NextList]_vars

\* list_message_ids runs on: the while loop has no wait in it, so an
\* iteration that can be taken is taken.
SpecListLive == SpecList /\ WF_vars(NextList)



---------------------------------------------------------------------------
(* inboxy: models.py *)

\* class EmailCategory(Enum): the members, each with its value
EmailCategoryMembers ==
    { [ name |-> "ACTION_REQUIRED", value |-> "action_required" ],
      [ name |-> "FYI_REVIEW",      value |-> "fyi_review" ],
      [ name |-> "CALENDAR_EVENT",  value |-> "calendar_event" ],
      [ name |-> "NEWSLETTER",      value |-> "newsletter" ],
      [ name |-> "PROMOTION",       value |-> "promotion" ],
      [ name |-> "SOCIAL",          value |-> "social" ],
      [ name |-> "AUTO_DELETE",     value |-> "auto_delete" ],
      [ name |-> "IMPORTANT",       value |-> "important" ] }

\* class Priority(Enum)
PriorityMembers ==
    { [ name |-> "URGENT", value |-> 5 ],
      [ name |-> "HIGH",   value |-> 4 ],
      [ name |-> "MEDIUM", value |-> 3 ],
      [ name |-> "LOW",    value |-> 2 ],
      [ name |-> "NONE",   value |-> 1 ] }

\* Enum(value) raises ValueError when no member has the value.
IsMemberValue(members, value) == \E e \in members : e.value = value

\* Enum(value): the member with that value. Where there is none the
\* constructor raises (IsMemberValue) and nothing is made; the value is then
\* shown as given, under no name.
Member(members, value) ==
    IF IsMemberValue(members, value)
    THEN CHOOSE e \in members : e.value = value
    ELSE [ name |-> "", value |-> value ]

\* EmailAnalysisResponse: the fields of the model with their defaults
\* (models.py:44-48); category, priority and summary are required.
ResponseDefaults ==
    [ action_needed |-> None, suggested_response |-> None,
      calendar_event |-> None, key_points |-> << >>, sentiment |-> "neutral" ]

\* EmailAnalysisResponse(...) validates: priority is an int with ge=1, le=5
\* (models.py:42); category is any str (models.py:41).
Validates(fields) == fields.priority >= 1 /\ fields.priority <= 5

\* dict.get(key, default)
DictGet(dict, key, default) == IF key \in DOMAIN dict THEN dict[key] ELSE default

\* CalendarEvent(**fields): the validated object (models.py:31-36); title is
\* required, date, time and location default to None.
CalendarEvent(fields) ==
    [ model    |-> "CalendarEvent",
      title    |-> fields.title,
      date     |-> DictGet(fields, "date", None),
      time     |-> DictGet(fields, "time", None),
      location |-> DictGet(fields, "location", None) ]

\* event.model_dump(): the dict of the object's fields
ModelDump(event) ==
    [ f \in { "title", "date", "time", "location" } |-> event[f] ]

EmailAnalysisAccepts(response) == FALSE

\* EmailAnalysis.__init__ raises (ValueError from EmailCategory(...) or
\* Priority(...)) unless both values name a member.
EmailAnalysisRaises(response) ==
    \/ ~IsMemberValue(EmailCategoryMembers, response.category)
    \/ ~IsMemberValue(PriorityMembers, response.priority)

\* EmailAnalysis(message_id, headers, response), when it does not raise
EmailAnalysis(message_id, headers, response) ==
    [ message_id         |-> message_id,
      subject            |-> DictGet(headers, "subject", "No subject"),
      sender             |-> DictGet(headers, "from", << "Unknown" >>),
      date               |-> DictGet(headers, "date", "Unknown"),
      category           |-> Member(EmailCategoryMembers, response.category),
      priority           |-> Member(PriorityMembers, response.priority),
      summary            |-> response.summary,
      action_needed      |-> response.action_needed,
      suggested_response |-> response.suggested_response,
      calendar_event     |-> IF response.calendar_event # None
                             THEN Some(ModelDump(response.calendar_event[1]))
                             ELSE None,
      key_points         |-> response.key_points,
      sentiment          |-> response.sentiment,
      is_thread          |-> FALSE,
      thread_position    |-> None ]

ToDictNames(a) ==
    [ message_id         |-> a.message_id,
      subject            |-> a.subject,
      sender             |-> a.sender,
      date               |-> a.date,
      category           |-> a.category.name,
      priority           |-> a.priority.value,
      summary            |-> a.summary,
      action_needed      |-> a.action_needed,
      suggested_response |-> a.suggested_response,
      calendar_event     |-> a.calendar_event,
      key_points         |-> a.key_points,
      sentiment          |-> a.sentiment ]

\* EmailAnalysis.to_dict: the enum members give their values; is_thread and
\* thread_position are not written.
ToDict(a) ==
    [ message_id         |-> a.message_id,
      subject            |-> a.subject,
      sender             |-> a.sender,
      date               |-> a.date,
      category           |-> a.category.value,
      priority           |-> a.priority.value,
      summary            |-> a.summary,
      action_needed      |-> a.action_needed,
      suggested_response |-> a.suggested_response,
      calendar_event     |-> a.calendar_event,
      key_points         |-> a.key_points,
      sentiment          |-> a.sentiment ]

\* EmailAnalysis.from_dict(data): the response is rebuilt and validated (the
\* calendar event from its dict, unless that is None or empty), then the
\* analysis constructed from it.
FromDict(data) ==
    EmailAnalysis(
        data.message_id,
        [ n \in { "subject", "from", "date" } |->
            IF n = "subject" THEN data.subject
            ELSE IF n = "from" THEN data.sender ELSE data.date ],
        [ category           |-> data.category,
          priority           |-> data.priority,
          summary            |-> data.summary,
          action_needed      |-> data.action_needed,
          suggested_response |-> data.suggested_response,
          calendar_event     |->
              IF data.calendar_event # None /\ DOMAIN data.calendar_event[1] # { }
              THEN Some(CalendarEvent(data.calendar_event[1]))
              ELSE None,
          key_points         |-> data.key_points,
          sentiment          |-> data.sentiment ])

---------------------------------------------------------------------------
(* inboxy: GmailClient.get_headers / get_body and EmailAI.analyze_email *)

\* A text that the code splits or searches is the sequence of its pieces
\* ("@", ">" and the runs between them); any other text is one string.

\* header["name"].lower() for the header names that occur
LowerName(name) ==
    CASE name = "From" -> "from" [] name = "Subject" -> "subject"
      [] name = "Date" -> "date" [] OTHER -> name

\* GmailClient.get_headers(message): headers[name.lower()] = value for every
\* header in order, a later header replacing an earlier one of the same name.
GetHeaders(message) ==
    LET hs == message.payload.headers
    IN  [ n \in { LowerName(hs[k].name) : k \in 1..Len(hs) } |->
            LET last == CHOOSE k \in 1..Len(hs) :
                            /\ LowerName(hs[k].name) = n
                            /\ \A l \in (k + 1)..Len(hs) : LowerName(hs[l].name) # n
            IN  hs[last].value ]

\* GmailClient.get_body(message): the text of the body (short here, so that
\* the [:3000] and [:2000] cuts keep all of it).
GetBody(message) == message.payload.body

\* The full message records handed to the classifier: one from a person at
\* corp.com, one from a shop's bulk sender, one without a From header.
AIMessage(m) ==
    [ id |-> m,
      payload |->
        [ headers |->
            IF m = 1
            THEN << [ name |-> "From",
                      value |-> << "Ann ", "<", "ann", "@", "corp.com", ">" >> ],
                    [ name |-> "Subject", value |-> "Q3 budget" ] >>
            ELSE IF m = 2
            THEN << [ name |-> "Subject", value |-> "Sale" ],
                    [ name |-> "From", value |-> << "news", "@", "shop.example" >> ] >>
            ELSE << [ name |-> "Date", value |-> "Mon, 2 Nov 2026" ] >>,
          body |-> "text" ] ]

AIMessageIds == { 1, 2, 3 }

\* s.split(sep)[-1]: what follows the last sep (all of s when there is none)
RECURSIVE AfterLast(_, _)
AfterLast(s, sep) ==
    IF s = << >> THEN << >>
    ELSE IF s[Len(s)] = sep THEN << >>
    ELSE Append(AfterLast(SubSeq(s, 1, Len(s) - 1), sep), s[Len(s)])

\* s.replace(piece, "")
Without(s, piece) == SelectSeq(s, LAMBDA c : c # piece)

\* needle in haystack (str containment)
Contains(haystack, needle) ==
    \E a \in 0..(Len(haystack) - Len(needle)) :
        SubSeq(haystack, a + 1, a + Len(needle)) = needle

\* The environments an EmailAI is constructed in: IMPORTANT_DOMAINS and
\* VIP_CONTACTS as _load_important_domains / _load_important_contacts read
\* them (the non-empty, stripped items).
Environments ==
    { [ important_domains |-> ds, important_contacts |-> cs ] :
        ds \in { << >>, << << "corp.com" >> >> },
        cs \in { << >>, << << "ann", "@", "corp.com" >> >> } }

\* _build_analysis_prompt: is_important (ai.py:105-109)
IsImportant(env, sender) ==
    LET sender_domain ==
            IF Contains(sender, << "@" >>)
            THEN Without(AfterLast(sender, "@"), ">") ELSE << >>
    IN  \/ sender_domain \in Range(env.important_domains)
        \/ \E k \in 1..Len(env.important_contacts) :
              Contains(sender, env.important_contacts[k])

\* _build_analysis_prompt(headers, body): what the prompt text is made of
BuildAnalysisPrompt(env, headers, body) ==
    LET sender == DictGet(headers, "from", << "Unknown" >>)
    IN  [ sender    |-> sender,
          subject   |-> DictGet(headers, "subject", "No subject"),
          important |-> IsImportant(env, sender),
          body      |-> body ]

MaxPriority == 6

\* What the scorer answers with before validation: any category text, any
\* priority from 0 to one past the domain.
RawResponses ==
    { [ category |-> c, priority |-> 3, summary |-> "s",
        action_needed |-> Some("reply"),
        calendar_event |-> Some([ title |-> "Review", date |-> Some("Monday") ]),
        key_points |-> << "k" >> ] :
        c \in { e.value : e \in EmailCategoryMembers } \cup { "urgent", "FYI_REVIEW" } }
    \cup
    { [ category |-> "important", priority |-> p, summary |-> "s",
        action_needed |-> None, calendar_event |-> None, key_points |-> << >> ] :
        p \in 0..MaxPriority }

\* The outcomes of one chat.completions.create call: it times out, the answer
\* is not the structured object asked for, or the scorer answers.
ScorerOutcomes ==
    { [ kind |-> "timeout" ], [ kind |-> "malformed" ] }
    \cup { [ kind |-> "response", response |-> r ] : r \in RawResponses }

\* create(..., response_model=EmailAnalysisResponse) returns the validated
\* response, or raises (None here): timeout, malformed answer, or an answer
\* that fails the model's validation.
Create(outcome) ==
    IF outcome.kind = "response" /\ Validates(outcome.response)
    THEN Some([ f \in DOMAIN ResponseDefaults \cup DOMAIN outcome.response |->
                  IF f \notin DOMAIN outcome.response THEN ResponseDefaults[f]
                  ELSE IF f = "calendar_event" /\ outcome.response[f] # None
                  THEN Some(CalendarEvent(outcome.response[f][1]))
                  ELSE outcome.response[f] ])
    ELSE None

FallbackResponseUrgent ==
    [ f \in DOMAIN ResponseDefaults \cup { "category", "priority", "summary" } |->
        CASE f = "category" -> "action_required"
          [] f = "priority" -> 5
          [] f = "summary" -> "Unable to analyze email"
          [] f = "key_points" -> << >>
          [] OTHER -> ResponseDefaults[f] ]

\* The response of the except branch (ai.py:91-96)
FallbackResponse ==
    [ f \in DOMAIN ResponseDefaults \cup { "category", "priority", "summary" } |->
        CASE f = "category" -> "fyi_review"
          [] f = "priority" -> 1
          [] f = "summary" -> "Unable to analyze email"
          [] f = "key_points" -> << >>
          [] OTHER -> ResponseDefaults[f] ]

\* The scoring call as issued, with its outcome; ok tells whether create returned.
ScoreCall(prompt, outcome) ==
    [ op |-> "create", args |-> [ prompt |-> prompt ],
      ok |-> Create(outcome) # None, outcome |-> outcome ]

AnalyzeEmailHintForces(env, message, outcome) ==
    LET headers  == GetHeaders(message)
        prompt   == BuildAnalysisPrompt(env, headers, GetBody(message))
        response == Create(outcome)
    IN  [ call |-> ScoreCall(prompt, outcome),
          analysis |->
            IF prompt.important
            THEN EmailAnalysis(message.id, headers,
                     [ FallbackResponse EXCEPT !["category"] = "important",
                                               !["priority"] = 5 ])
            ELSE IF response # None /\ ~EmailAnalysisRaises(response[1])
            THEN EmailAnalysis(message.id, headers, response[1])
            ELSE EmailAnalysis(message.id, headers, FallbackResponse) ]

\* analyze_email(message) of an EmailAI constructed in env, the scoring call
\* having the given outcome: the call issued and the analysis returned. The
\* try covers the call and the construction of the EmailAnalysis, so an
\* error of either leads to the except branch.
AnalyzeEmail(env, message, outcome) ==
    LET headers  == GetHeaders(message)
        prompt   == BuildAnalysisPrompt(env, headers, GetBody(message))
        response == Create(outcome)
    IN  [ call |-> ScoreCall(prompt, outcome),
          analysis |->
            IF response # None /\ ~EmailAnalysisRaises(response[1])
            THEN EmailAnalysis(message.id, headers, response[1])
            ELSE EmailAnalysis(message.id, headers, FallbackResponse) ]

MaxAnalyses == 2

\* EmailAI(...).analyze_email(message) is called once more on the message of
\* the session, by an EmailAI constructed in some environment.
analyze_email ==
    /\ tool = "fn"
    /\ cmd = "analyze_email"
    /\ pc \in { "idle", "done" }
    /\ Len(items) < MaxAnalyses
    /\ \E env \in Environments, outcome \in ScorerOutcomes :
         LET res == AnalyzeEmail(env, messages[1], outcome)
         IN  /\ opts' = Some(env)
             /\ calls' = Append(calls, res.call)
             /\ items' = Append(items, res.analysis)
             /\ ret' = Some(res.analysis)
    /\ pc' = "done"
    /\ UNCHANGED << mailbox, order, tool, runs, cmd, query, limit, pages, ids,
                    page_token, err, confirm, inbox_id, i, j, messages, now,
                    cache >>

InitAnalyze ==
    /\ mailbox = << >>
    /\ order = << >>
    /\ tool = "fn"
    /\ runs = 1
    /\ pc = "idle"
    /\ cmd = "analyze_email"
    /\ query = "none"
    /\ limit = None
    /\ pages = << >>
    /\ ids = << >>
    /\ page_token = None
    /\ calls = << >>
    /\ ret = None
    /\ err = "none"
    /\ confirm = None
    /\ inbox_id = None
    /\ i = 0
    /\ j = 0
    /\ items = << >>
    /\ opts = None
    /\ messages \in { << AIMessage(m) >> : m \in AIMessageIds }
    /\ now = 0
    /\ cache = << >>

NextAnalyze == analyze_email

SpecAnalyze == InitAnalyze /\ [][NextAnalyze]_vars

---------------------------------------------------------------------------
(* inboxy: EmailAI.batch_analyze and its cache of analyses *)

EmailAI_cache_ttl == 3600

BatchLimitDefault == 50

BatchCacheKeyEnds(msgs) ==
    IF msgs # << >>
    THEN << "batch", msgs[1].id, msgs[Len(msgs)].id >>
    ELSE << "empty" >>

\* _get_cache_key_for_batch(messages): md5 of
\* f"batch_{first id}_{last id}_{len(messages)}", or "empty". The text
\* determines the triple, and the digest is taken to be collision free.
BatchCacheKey(msgs) ==
    IF msgs # << >>
    THEN << "batch", msgs[1].id, msgs[Len(msgs)].id, Len(msgs) >>
    ELSE << "empty" >>

\* _get_cached_analyses(cache_key): the analyses rebuilt from a fresh cache
\* file, else None. clock is datetime.now().timestamp() at the call.
GetCachedAnalyses(key, clock) ==
    IF key \in DOMAIN cache /\ clock - cache[key].mtime < EmailAI_cache_ttl
    THEN Some([ k \in 1..Len(cache[key].payload) |-> FromDict(cache[key].payload[k]) ])
    ELSE None

CacheAnalysesKeepTime(key, analyses) ==
    [ k \in DOMAIN cache \cup { key } |->
        IF k = key
        THEN [ payload |-> [ n \in 1..Len(analyses) |-> ToDict(analyses[n]) ],
               mtime |-> IF key \in DOMAIN cache THEN cache[key].mtime ELSE now ]
        ELSE cache[k] ]

CacheAnalysesHead(key, analyses) ==
    [ k \in DOMAIN cache \cup { key } |->
        IF k = key
        THEN [ payload |-> << ToDict(analyses[1]) >>, mtime |-> now ]
        ELSE cache[k] ]

\* _cache_analyses(cache_key, analyses): the file is written (over any old
\* one) with the analyses' dicts.
CacheAnalyses(key, analyses) ==
    [ k \in DOMAIN cache \cup { key } |->
        IF k = key
        THEN [ payload |-> [ n \in 1..Len(analyses) |-> ToDict(analyses[n]) ],
               mtime |-> now ]
        ELSE cache[k] ]

\* The environment of the session's EmailAI: corp.com is an important domain.
BatchEnvironment ==
    [ important_domains |-> << << "corp.com" >> >>, important_contacts |-> << >> ]

MaxBatch == 2

\* The message lists handed to batch_analyze: the first messages of a
\* listing that starts with message 2, then message 1.
BatchInputs ==
    { [ k \in 1..n |-> AIMessage(IF k = 1 THEN 2 ELSE IF k = 2 THEN 1 ELSE k) ] :
        n \in 0..MaxBatch }

\* The message lists handed to batch_analyze in a session that summarises
\* the results of several queries: two lists that begin with message 2, end
\* with message 3 and have another message between; the list of messages 2
\* and 3 alone; and lists with another first or last message.
QueryResults ==
    { << AIMessage(2), AIMessage(m), AIMessage(3) >> : m \in { 1, 4 } }
    \cup { << AIMessage(2), AIMessage(3) >>, << AIMessage(1), AIMessage(3) >>,
           << AIMessage(2), AIMessage(1) >> }

\* The limits batch_analyze is called with: its default, and limits that cut
\* the list.
BatchLimits == { 0, 1, BatchLimitDefault }

\* The outcomes of a scoring call inside a batch: a timeout, an accepted
\* answer, an answer with an unknown category, an answer with a priority
\* outside 1..5.
BatchOutcomes ==
    { o \in ScorerOutcomes :
        \/ o.kind = "timeout"
        \/ /\ o.kind = "response"
           /\ \/ o.response.category \in { "newsletter", "urgent" }
              \/ o.response.priority = MaxPriority }

\* Time that passed since the previous invocation of the session: none, the
\* TTL to the second, one second more.
ElapsedAI ==
    IF runs = 0 THEN { 0 }
    ELSE { 0, EmailAI_cache_ttl, EmailAI_cache_ttl + 1 }

MessagesToAnalyzeAll == messages

\* The inputs of the session's kind
SessionInputs == IF tool = "ai" THEN BatchInputs ELSE QueryResults

SessionLimits == IF tool = "ai" THEN BatchLimits ELSE { BatchLimitDefault }

SessionOutcomes ==
    IF tool = "ai" THEN BatchOutcomes
    ELSE { o \in BatchOutcomes :
             o.kind = "timeout" \/ o.response.category = "newsletter" }

\* messages_to_analyze = messages[:limit]
MessagesToAnalyze == Take(messages, limit[1])

\* batch_analyze(messages, limit) is called: the cut, the cache key and the
\* cache read; a non-empty fresh entry is returned at once, an empty list
\* runs no loop, writes nothing and is returned.
batch_analyze_start ==
    /\ AtShell
    /\ tool \in { "ai", "ai_queries" }
    /\ runs < MaxRuns
    /\ \E msgs \in SessionInputs, lim \in SessionLimits, d \in ElapsedAI :
         LET to_analyze == Take(msgs, lim)
             cached == GetCachedAnalyses(BatchCacheKey(to_analyze), now + d)
         IN  /\ now' = now + d
             /\ messages' = msgs
             /\ limit' = Some(lim)
             /\ IF cached # None /\ cached[1] # << >>
                THEN /\ ret' = cached
                     /\ pc' = "done"
                ELSE IF to_analyze = << >>
                THEN /\ ret' = Some(<< >>)
                     /\ pc' = "done"
                ELSE /\ ret' = None
                     /\ pc' = "ba_analyze"
    /\ cmd' = "batch_analyze"
    /\ runs' = runs + 1
    /\ calls' = << >>
    /\ err' = "none"
    /\ i' = 1
    /\ items' = << >>
    /\ UNCHANGED << mailbox, order, tool, query, pages, ids, page_token,
                    confirm, inbox_id, j, opts, cache >>

\* One iteration of "for i, msg in enumerate(messages_to_analyze)": the
\* analyze_email call and the append; after the last one the cache write
\* (ai.py:173-174, outside any try: an OSError of open() leaves batch_analyze,
\* the file as it was) and the return.
batch_analyze ==
    /\ pc = "ba_analyze"
    /\ \E outcome \in SessionOutcomes :
         LET res == AnalyzeEmail(opts[1], MessagesToAnalyze[i], outcome)
             analyses == Append(items, res.analysis)
         IN  /\ calls' = Append(calls, res.call)
             /\ items' = analyses
             /\ IF i < Len(MessagesToAnalyze)
                THEN /\ i' = i + 1
                     /\ UNCHANGED << pc, ret, err, cache >>
                ELSE /\ i' = i
                     /\ \E written \in BOOLEAN :
                          IF written
                          THEN /\ cache' = CacheAnalyses(BatchCacheKey(MessagesToAnalyze),
                                                         analyses)
                               /\ ret' = Some(analyses)
                               /\ pc' = "done"
                               /\ err' = err
                          ELSE /\ cache' = cache
                               /\ ret' = ret
                               /\ pc' = "raised"
                               /\ err' = "OSError"
    /\ UNCHANGED << mailbox, order, tool, runs, cmd, query, limit, pages, ids,
                    page_token, confirm, inbox_id, j, opts, messages, now >>

InitBatch ==
    /\ mailbox = << >>
    /\ order = << >>
    /\ tool = "ai"
    /\ runs = 0
    /\ pc = "idle"
    /\ cmd = "none"
    /\ query = "none"
    /\ limit = None
    /\ pages = << >>
    /\ ids = << >>
    /\ page_token = None
    /\ calls = << >>
    /\ ret = None
    /\ err = "none"
    /\ confirm = None
    /\ inbox_id = None
    /\ i = 0
    /\ j = 0
    /\ items = << >>
    /\ opts = Some(BatchEnvironment)
    /\ messages = << >>
    /\ now = 0
    /\ cache = << >>

NextBatch == batch_analyze_start \/ batch_analyze

SpecBatch == InitBatch /\ [][NextBatch]_vars

\* A session of batch_analyze calls on the results of several queries
InitQueries ==
    /\ mailbox = << >>
    /\ order = << >>
    /\ tool = "ai_queries"
    /\ runs = 0
    /\ pc = "idle"
    /\ cmd = "none"
    /\ query = "none"
    /\ limit = None
    /\ pages = << >>
    /\ ids = << >>
    /\ page_token = None
    /\ calls = << >>
    /\ ret = None
    /\ err = "none"
    /\ confirm = None
    /\ inbox_id = None
    /\ i = 0
    /\ j = 0
    /\ items = << >>
    /\ opts = Some(BatchEnvironment)
    /\ messages = << >>
    /\ now = 0
    /\ cache = << >>

SpecQueries == InitQueries /\ [][NextBatch]_vars

---------------------------------------------------------------------------
(* inboxy: DigestGenerator._prepare_data *)

UrgentCap == 5

GroupCap == 3

GroupMin == 2

SampleCap == 3

\* s.split(sep): the parts of s between the occurrences of sep
RECURSIVE Split(_, _)
Split(s, sep) ==
    IF s = << >> THEN << << >> >>
    ELSE LET rest == Split(Tail(s), sep)
         IN  IF Head(s) = sep THEN << << >> >> \o rest
             ELSE << << Head(s) >> \o Head(rest) >> \o Tail(rest)

\* piece in s, for a one-character piece
Has(s, piece) == \E k \in 1..Len(s) : s[k] = piece

\* sorted(seq, key=..., reverse=True) on the pairs of a key and an item: the
\* sort is stable, so under reverse=True pairs of equal key keep their
\* order. InsertDesc puts x behind every pair whose key is at least x's.
RECURSIVE InsertDesc(_, _)
InsertDesc(sorted, x) ==
    IF sorted = << >> THEN << x >>
    ELSE IF Head(sorted).key >= x.key
         THEN << Head(sorted) >> \o InsertDesc(Tail(sorted), x)
         ELSE << x >> \o sorted

RECURSIVE SortedPairs(_)
SortedPairs(pairs) ==
    IF pairs = << >> THEN << >>
    ELSE InsertDesc(SortedPairs(SubSeq(pairs, 1, Len(pairs) - 1)), pairs[Len(pairs)])

\* sorted(seq, key=lambda x: keys of x, reverse=True), keys[k] being the key
\* of seq[k]
SortedDesc(seq, keys) ==
    LET sorted == SortedPairs([ k \in 1..Len(seq) |-> [ key |-> keys[k], item |-> seq[k] ] ])
    IN  [ k \in 1..Len(sorted) |-> sorted[k].item ]

\* sorted(analyses, key=lambda x: x.priority.value, reverse=True)
ByPriority(analyses) ==
    SortedDesc(analyses, [ k \in 1..Len(analyses) |-> analyses[k].priority.value ])

\* sorted(sender_groups.items(), key=lambda x: len(x[1]), reverse=True)
BySize(groups) ==
    SortedDesc(groups, [ k \in 1..Len(groups) |-> Len(groups[k].emails) ])

\* a.date.split(',')[0] if ',' in a.date else a.date[:n], for the dates that
\* occur ("Unknown" is shorter than either cut)
DateShort(date) == IF date = "Mon, 2 Nov 2026" THEN "Mon" ELSE date

GmailLink(message_id) == << "https://mail.google.com/mail/u/0/#inbox/", message_id >>

\* The condition of the urgent loop (digest.py:190)
IsUrgent(a) == a.priority.value >= 4 \/ a.category.name = "ACTION_REQUIRED"

\* The dict appended for an urgent analysis (digest.py:192-200); the subject
\* is shorter than the [:100] cut.
UrgentItem(a) ==
    [ subject       |-> a.subject,
      sender        |-> Strip(Without(Without(a.sender, "<"), ">")),
      date          |-> DateShort(a.date),
      summary       |-> a.summary,
      action_needed |-> a.action_needed,
      gmail_link    |-> GmailLink(a.message_id),
      is_meeting    |-> a.calendar_event # None ]

\* The loop over the sorted analyses from its k-th element on, acc being
\* data["urgent_items"]: it stops once acc holds UrgentCap items.
RECURSIVE UrgentLoop(_, _, _)
UrgentLoop(sorted, k, acc) ==
    IF k > Len(sorted) THEN acc
    ELSE IF IsUrgent(sorted[k])
         THEN LET acc1 == Append(acc, UrgentItem(sorted[k]))
              IN  IF Len(acc1) >= UrgentCap THEN acc1
                  ELSE UrgentLoop(sorted, k + 1, acc1)
         ELSE UrgentLoop(sorted, k + 1, acc)

UrgentItemsUnsorted(analyses) == UrgentLoop(analyses, 1, << >>)

\* data["urgent_items"] after the loop of digest.py:189-204
UrgentItems(analyses) == UrgentLoop(ByPriority(analyses), 1, << >>)

\* The same loop, count being data["urgent_count"] and listed the length of
\* data["urgent_items"]: the count goes up by one with every item appended
\* (digest.py:191), and the loop stops once UrgentCap items are listed.
RECURSIVE UrgentCountLoop(_, _, _, _)
UrgentCountLoop(sorted, k, count, listed) ==
    IF k > Len(sorted) THEN count
    ELSE IF IsUrgent(sorted[k])
         THEN IF listed + 1 >= UrgentCap THEN count + 1
              ELSE UrgentCountLoop(sorted, k + 1, count + 1, listed + 1)
         ELSE UrgentCountLoop(sorted, k + 1, count, listed)

UrgentCountAll(analyses) == Len(SelectSeq(analyses, IsUrgent))

\* data["urgent_count"] after the loop of digest.py:189-204
UrgentCount(analyses) == UrgentCountLoop(ByPriority(analyses), 1, 0, 0)

\* digest.py:207
ActionCount(analyses) ==
    Len(SelectSeq(analyses, LAMBDA a : a.category.name = "ACTION_REQUIRED"))

DeletableCategories == { "NEWSLETTER", "PROMOTION", "SOCIAL", "AUTO_DELETE" }

\* digest.py:210-214
Deletable(analyses) ==
    SelectSeq(analyses, LAMBDA a : a.category.name \in DeletableCategories)

\* The text whose split('@')[1] is taken: the bracketed address when the
\* sender has a '<', else the whole sender (digest.py:222-225).
AddressPart(sender) ==
    IF Has(sender, "<") THEN Split(Split(sender, "<")[2], ">")[1] ELSE sender

\* sender.split('@')[1] raises IndexError when the split has one part only.
DomainRaises(sender) ==
    Has(sender, "@") /\ Len(Split(AddressPart(sender), "@")) < 2

\* The group key of a sender (digest.py:221-227), when nothing is raised
Domain(sender) ==
    IF Has(sender, "@") THEN Split(AddressPart(sender), "@")[2] ELSE << "unknown" >>

\* sender_groups after the loop of digest.py:218-230: the dict's items in
\* insertion order, an item being a domain and its emails.
RECURSIVE SenderGroups(_)
SenderGroups(deletable) ==
    IF deletable = << >> THEN << >>
    ELSE LET before == SenderGroups(SubSeq(deletable, 1, Len(deletable) - 1))
             email  == deletable[Len(deletable)]
             domain == Domain(email.sender)
         IN  IF \E g \in 1..Len(before) : before[g].domain = domain
             THEN [ g \in 1..Len(before) |->
                      IF before[g].domain = domain
                      THEN [ before[g] EXCEPT !.emails = Append(@, email) ]
                      ELSE before[g] ]
             ELSE Append(before, [ domain |-> domain, emails |-> << email >> ])

\* f"from:@{domain}"
GroupQuery(domain) == << "from:@" >> \o domain

DeleteGroupLastSamples(g) ==
    [ name    |-> << "From " >> \o g.domain,
      count   |-> Len(g.emails),
      query   |-> GroupQuery(g.domain),
      samples |-> [ k \in 1..Len(Take(g.emails, SampleCap)) |->
                      LET e == g.emails[Len(g.emails) + 1 - k]
                      IN  [ subject    |-> e.subject,
                            date       |-> DateShort(e.date),
                            gmail_link |-> GmailLink(e.message_id) ] ] ]

\* The dict appended for a group (digest.py:235-244); the subjects are
\* shorter than the [:50] cut.
DeleteGroup(g) ==
    [ name    |-> << "From " >> \o g.domain,
      count   |-> Len(g.emails),
      query   |-> GroupQuery(g.domain),
      samples |-> [ k \in 1..Len(Take(g.emails, SampleCap)) |->
                      [ subject    |-> g.emails[k].subject,
                        date       |-> DateShort(g.emails[k].date),
                        gmail_link |-> GmailLink(g.emails[k].message_id) ] ] ]

DeleteGroupsAny(analyses) ==
    LET top == Take(BySize(SenderGroups(Deletable(analyses))), GroupCap)
    IN  [ k \in 1..Len(top) |-> DeleteGroup(top[k]) ]

\* data["delete_groups"] after the loop of digest.py:233-244: of the first
\* GroupCap items by descending size, those with GroupMin emails or more.
DeleteGroups(analyses) ==
    LET top  == Take(BySize(SenderGroups(Deletable(analyses))), GroupCap)
        kept == SelectSeq(top, LAMBDA g : Len(g.emails) >= GroupMin)
    IN  [ k \in 1..Len(kept) |-> DeleteGroup(kept[k]) ]

\* _prepare_data raises (IndexError, digest.py:225) on a deletable analysis
\* whose sender has an '@' but none in the part that is split.
PrepareDataRaises(analyses) ==
    \E k \in 1..Len(analyses) :
        /\ analyses[k].category.name \in DeletableCategories
        /\ DomainRaises(analyses[k].sender)

DeleteCountCapped(analyses) ==
    LET groups == DeleteGroups(analyses)
    IN  Len(Concat([ k \in 1..Len(groups) |-> groups[k].samples ]))

\* digest.py:215
DeleteCount(analyses) == Len(Deletable(analyses))

\* _prepare_data(analyses): the dict it returns (without the date and
\* timestamp of the clock)
PrepareData(analyses) ==
    [ total_count   |-> Len(analyses),
      urgent_count  |-> UrgentCount(analyses),
      action_count  |-> ActionCount(analyses),
      delete_count  |-> DeleteCount(analyses),
      urgent_items  |-> UrgentItems(analyses),
      delete_groups |-> DeleteGroups(analyses) ]

\* The analyses a digest is assembled from (the list get_inbox_summary
\* returned): each has a priority, a category and a sender.
DigestKinds ==
    { [ priority |-> 5, category |-> "important",
        sender |-> << "Ann ", "<", "ann", "@", "corp.com", ">" >> ],
      [ priority |-> 4, category |-> "fyi_review",
        sender |-> << "news", "@", "shop.example" >> ],
      [ priority |-> 3, category |-> "action_required",
        sender |-> << "Ann ", "<", "ann", "@", "corp.com", ">" >> ],
      [ priority |-> 3, category |-> "newsletter",
        sender |-> << "news", "@", "shop.example" >> ],
      [ priority |-> 2, category |-> "promotion",
        sender |-> << "Deals ", "<", "deals", "@", "a.com", ">" >> ],
      [ priority |-> 1, category |-> "social",
        sender |-> << "Unknown" >> ],
      [ priority |-> 5, category |-> "promotion",
        sender |-> << "a", "@", "b", "@", "c.com" >> ],
      [ priority |-> 1, category |-> "auto_delete",
        sender |-> << "bob", "@", "x.com", " (Bob ", "<", "CEO", ">", ")" >> ] }

\* The analysis of message message_id with the priority, category and sender
\* of kind
DigestAnalysis(message_id, kind) ==
    EmailAnalysis(message_id,
        [ n \in { "from", "subject", "date" } |->
            IF n = "from" THEN kind.sender
            ELSE IF n = "subject" THEN "Subject" ELSE "Mon, 2 Nov 2026" ],
        [ category |-> kind.category, priority |-> kind.priority,
          summary |-> "summary", action_needed |-> None,
          suggested_response |-> None, calendar_event |-> None,
          key_points |-> << >>, sentiment |-> "neutral" ])

\* The list of analyses with the given kinds, the k-th of message k
Analyses(kinds) == [ k \in 1..Len(kinds) |-> DigestAnalysis(k, kinds[k]) ]

\* n times x
Repeat(x, n) == [ k \in 1..n |-> x ]

Urgent(priority) ==
    [ priority |-> priority,
      category |-> IF priority = 5 THEN "important" ELSE "action_required",
      sender |-> << "Ann ", "<", "ann", "@", "corp.com", ">" >> ]

Bulk(domain) ==
    [ priority |-> 2, category |-> "promotion",
      sender |-> << "deals", "@", domain >> ]

BulkDomains == << "a.com", "b.com", "c.com", "d.com" >>

MaxDigest == 3

MaxGroup == 2

MaxUrgent == 6

\* The lists _prepare_data is applied to: every short list of kinds; bulk
\* mail of four domains, up to MaxGroup of each; low urgent mail followed by
\* higher urgent mail (the lower asks for an action), up to MaxUrgent of
\* each; 2 of priority 4 and 10 of priority 5; bulk mail of a.com (5),
\* b.com (1) and c.com (3).
DigestInputs ==
    { Analyses(kinds) : kinds \in SeqsUpTo(DigestKinds, MaxDigest) }
    \cup { Analyses(Concat([ d \in 1..Len(BulkDomains) |->
                               Repeat(Bulk(BulkDomains[d]), cnt[d]) ])) :
              cnt \in [ 1..Len(BulkDomains) -> 0..MaxGroup ] }
    \cup { Analyses(Repeat(Urgent(4), low) \o Repeat(Urgent(5), high)) :
              low \in 0..MaxUrgent, high \in 0..MaxUrgent }
    \cup { Analyses(Repeat(Urgent(4), 2) \o Repeat(Urgent(5), 10)),
           Analyses(Repeat(Bulk("a.com"), 5) \o Repeat(Bulk("b.com"), 1)
                    \o Repeat(Bulk("c.com"), 3)) }

AnalysesSortedInPlace(analyses) == ByPriority(analyses)

\* The list handed to _prepare_data, after the call: sorted(analyses, ...)
\* builds a new list (analyses.sort() would not) and the loops only read.
AnalysesAfter(analyses) == analyses

\* generator._prepare_data(analyses) on the analyses of the session
prepare_data ==
    /\ tool = "digest"
    /\ cmd = "prepare_data"
    /\ pc = "idle"
    /\ IF PrepareDataRaises(items)
       THEN /\ pc' = "raised"
            /\ err' = "IndexError"
            /\ ret' = ret
       ELSE /\ pc' = "done"
            /\ err' = err
            /\ ret' = Some(PrepareData(items))
    /\ items' = AnalysesAfter(items)
    /\ UNCHANGED << mailbox, order, tool, runs, cmd, query, limit, pages, ids,
                    page_token, calls, confirm, inbox_id, i, j, opts,
                    messages, now, cache >>

\* A session that holds a list of analyses, with a mailbox and a cache
\* directory beside it.
InitPrepare ==
    /\ mailbox = [ m \in 1..2 |-> { "INBOX", "UNREAD" } ]
    /\ order = << 2, 1 >>
    /\ tool = "digest"
    /\ runs = 1
    /\ pc = "idle"
    /\ cmd = "prepare_data"
    /\ query = "none"
    /\ limit = None
    /\ pages = << >>
    /\ ids = << >>
    /\ page_token = None
    /\ calls = << >>
    /\ ret = None
    /\ err = "none"
    /\ confirm = None
    /\ inbox_id = None
    /\ i = 0
    /\ j = 0
    /\ items \in DigestInputs
    /\ opts = None
    /\ messages = << >>
    /\ now = 0
    /\ cache = [ k \in { CacheKey("in:inbox", 100) } |->
                  [ payload |-> << Msg(2), Msg(1) >>, mtime |-> 0 ] ]

NextPrepare == prepare_data

SpecPrepare == InitPrepare /\ [][NextPrepare]_vars

---------------------------------------------------------------------------
(* inboxy: two processes on the files of the .cache directory *)

\* Two inboxy processes run in the same directory. In these sessions pc, opts,
\* i, ret and err hold one value per process.
Procs == { 1, 2 }

\* The cache files the processes work on (the keys of their queries)
RaceKeys == { CacheKey("in:inbox", 20), CacheKey("all", 20) }

\* The cache operations one process runs, one after the other
MaxRaceOps == 2

\* The write calls that carry the JSON text of one payload to the file (the
\* buffered writer flushes whenever its buffer is full, and at close)
RaceChunks == 2

\* The JSON text of the payload process p caches, in the pieces its write
\* calls carry
Text(p) == [ n \in 1..RaceChunks |-> [ by |-> p, part |-> n ] ]

\* The bytes of a file between its old end and the offset of a later write
Hole == [ by |-> 0, part |-> 0 ]

\* A file after a write of chunk at the writer's offset n - 1 (the writer's
\* own position: the files are opened without O_APPEND)
WriteAt(content, n, chunk) ==
    [ k \in 1..(IF Len(content) > n THEN Len(content) ELSE n) |->
        IF k = n THEN chunk
        ELSE IF k <= Len(content) THEN content[k] ELSE Hole ]

\* json.load(f) on a file with this content can return: only a complete JSON
\* text parses for certain; a text of full length pieced together from two
\* payloads may or may not; anything shorter, or holding a hole, does not.
CanParse(content) ==
    IF \E p \in Procs : content = Text(p) THEN { TRUE }
    ELSE IF Len(content) = RaceChunks /\ \A k \in 1..Len(content) : content[k] # Hole
         THEN BOOLEAN
         ELSE { FALSE }

\* The operations a process has completed or given up
OpsOf(p) == Len(SelectSeq(calls, LAMBDA c : c.args.by = p))

\* A process calls _cache_emails(key, its payload) or _get_cached_emails(key).
race_call ==
    \E p \in Procs, op \in { "put", "get" }, key \in RaceKeys :
        /\ tool = "race"
        /\ pc[p] = "idle"
        /\ OpsOf(p) < MaxRaceOps
        /\ opts' = [ opts EXCEPT ![p] = [ op |-> op, key |-> key ] ]
        /\ pc' = [ pc EXCEPT ![p] = IF op = "put" THEN "put_open" ELSE "get_exists" ]
        /\ ret' = [ ret EXCEPT ![p] = None ]
        /\ UNCHANGED << mailbox, order, tool, runs, cmd, query, limit, pages,
                        ids, page_token, calls, err, confirm, inbox_id, i, j,
                        items, messages, now, cache >>

\* _cache_emails: open(cache_file, 'w') creates the file or cuts it to
\* nothing (gmail.py:77).
cache_put_open ==
    \E p \in Procs :
        /\ pc[p] = "put_open"
        /\ cache' = [ k \in DOMAIN cache \cup { opts[p].key } |->
                        IF k = opts[p].key
                        THEN [ payload |-> << >>, mtime |-> now ]
                        ELSE cache[k] ]
        /\ i' = [ i EXCEPT ![p] = 0 ]
        /\ pc' = [ pc EXCEPT ![p] = "put_write" ]
        /\ UNCHANGED << mailbox, order, tool, runs, cmd, query, limit, pages,
                        ids, page_token, calls, ret, err, confirm, inbox_id,
                        j, items, opts, messages, now >>

\* _cache_emails: one write call of json.dump(emails, f) (gmail.py:78); with
\* the last one the file is closed and the put has finished.
cache_put_write ==
    \E p \in Procs :
        /\ pc[p] = "put_write"
        /\ cache' = [ cache EXCEPT ![opts[p].key] =
                        [ payload |-> WriteAt(@.payload, i[p] + 1, Text(p)[i[p] + 1]),
                          mtime |-> now ] ]
        /\ i' = [ i EXCEPT ![p] = @ + 1 ]
        /\ IF i[p] + 1 < RaceChunks
           THEN UNCHANGED << pc, calls >>
           ELSE /\ pc' = [ pc EXCEPT ![p] = "idle" ]
                /\ calls' = Append(calls,
                       Call("put", [ by |-> p, key |-> opts[p].key ], TRUE))
        /\ UNCHANGED << mailbox, order, tool, runs, cmd, query, limit, pages,
                        ids, page_token, ret, err, confirm, inbox_id, j,
                        items, opts, messages, now >>

\* _get_cached_emails: cache_file.exists() and the age test (gmail.py:67-69);
\* without a fresh file None is returned (gmail.py:72).
cache_get_exists ==
    \E p \in Procs :
        /\ pc[p] = "get_exists"
        /\ IF GetCachedEmails(opts[p].key, now) = None
           THEN /\ ret' = [ ret EXCEPT ![p] = Some(None) ]
                /\ pc' = [ pc EXCEPT ![p] = "idle" ]
                /\ calls' = Append(calls,
                       Call("get", [ by |-> p, key |-> opts[p].key ], TRUE))
           ELSE /\ pc' = [ pc EXCEPT ![p] = "get_load" ]
                /\ UNCHANGED << ret, calls >>
        /\ UNCHANGED << mailbox, order, tool, runs, cmd, query, limit, pages,
                        ids, page_token, err, confirm, inbox_id, i, j, items,
                        opts, messages, now, cache >>

\* _get_cached_emails: open(cache_file, 'r') and json.load(f) (gmail.py:70-71)
\* on the file as it is now; a text that does not parse raises
\* json.JSONDecodeError, which nothing in get_emails catches.
cache_get_load ==
    \E p \in Procs :
        /\ pc[p] = "get_load"
        /\ \E parsed \in CanParse(cache[opts[p].key].payload) :
             /\ calls' = Append(calls,
                    Call("get", [ by |-> p, key |-> opts[p].key ], parsed))
             /\ IF parsed
                THEN /\ ret' = [ ret EXCEPT ![p] = Some(cache[opts[p].key].payload) ]
                     /\ pc' = [ pc EXCEPT ![p] = "idle" ]
                     /\ err' = err
                ELSE /\ ret' = ret
                     /\ pc' = [ pc EXCEPT ![p] = "raised" ]
                     /\ err' = [ err EXCEPT ![p] = "JSONDecodeError" ]
        /\ UNCHANGED << mailbox, order, tool, runs, cmd, query, limit, pages,
                        ids, page_token, confirm, inbox_id, i, j, items, opts,
                        messages, now, cache >>

InitRace ==
    /\ mailbox = << >>
    /\ order = << >>
    /\ tool = "race"
    /\ runs = 0
    /\ pc = [ p \in Procs |-> "idle" ]
    /\ cmd = "none"
    /\ query = "none"
    /\ limit = None
    /\ pages = << >>
    /\ ids = << >>
    /\ page_token = None
    /\ calls = << >>
    /\ ret = [ p \in Procs |-> None ]
    /\ err = [ p \in Procs |-> "none" ]
    /\ confirm = None
    /\ inbox_id = None
    /\ i = [ p \in Procs |-> 0 ]
    /\ j = 0
    /\ items = << >>
    /\ opts = [ p \in Procs |-> None ]
    /\ messages = << >>
    /\ now = 0
    /\ cache = << >>

NextRace ==
    \/ race_call
    \/ cache_put_open
    \/ cache_put_write
    \/ cache_get_exists
    \/ cache_get_load

SpecRace == InitRace /\ [][NextRace]_vars

---------------------------------------------------------------------------
(* inboxy digest: cli.digest, DigestGenerator.generate, get_inbox_summary *)

DigestLimit == 100

ClearCacheEmailsOnly(dir) ==
    [ k \in { key \in DOMAIN dir : Len(key) = 3 } |-> dir[k] ]

\* clear_cache(): shutil.rmtree(cache_dir) and cache_dir.mkdir(): the
\* directory that both caches keep their files in is left empty.
ClearCache(dir) == << >>

\* The outcomes of a scoring call inside a digest: a timeout, a newsletter.
DigestOutcomes ==
    { o \in ScorerOutcomes :
        \/ o.kind = "timeout"
        \/ o.kind = "response" /\ o.response.category = "newsletter" }

\* generate after get_inbox_summary returned analyses (digest.py:145-174):
\* nothing is made of an empty list; else the data are prepared (the files
\* written from them are not modelled).
AfterAnalyses(analyses) ==
    IF analyses = << >>
    THEN /\ ret' = None
         /\ pc' = "done"
         /\ err' = err
    ELSE IF PrepareDataRaises(analyses)
    THEN /\ ret' = None
         /\ pc' = "raised"
         /\ err' = "IndexError"
    ELSE /\ ret' = Some(PrepareData(analyses))
         /\ pc' = "done"
         /\ err' = err

\* get_inbox_summary after get_emails returned emails (ai.py:208-214), up to
\* the first scoring call of batch_analyze (ai.py:142-150): no email ends the
\* digest; a fresh, non-empty entry of the analysis cache is the result.
AfterEmails(emails) ==
    /\ messages' = emails
    /\ IF emails = << >>
       THEN /\ items' = << >>
            /\ i' = i
            /\ AfterAnalyses(<< >>)
       ELSE LET cached == GetCachedAnalyses(BatchCacheKey(Take(emails, DigestLimit)), now)
            IN  IF cached # None /\ cached[1] # << >>
                THEN /\ items' = cached[1]
                     /\ i' = i
                     /\ AfterAnalyses(cached[1])
                ELSE /\ items' = << >>
                     /\ i' = 1
                     /\ pc' = "dg_analyze"
                     /\ UNCHANGED << ret, err >>

\* inboxy digest [--fresh] is invoked: with --fresh, GmailClient().clear_cache()
\* (cli.py:270-273); j counts the files it removed.
digest_start ==
    /\ AtShell
    /\ tool = "digest_cli"
    /\ runs < MaxRuns
    /\ \E fresh \in BOOLEAN, d \in Elapsed :
         /\ now' = now + d
         /\ opts' = Some([ fresh |-> fresh ])
         /\ cache' = IF fresh THEN ClearCache(cache) ELSE cache
         /\ j' = IF fresh THEN Cardinality(DOMAIN cache) ELSE 0
    /\ cmd' = "digest"
    /\ runs' = runs + 1
    /\ pc' = "dg_generate"
    /\ query' = "in:inbox"
    /\ limit' = Some(DigestLimit)
    /\ ids' = << >>
    /\ calls' = << >>
    /\ ret' = None
    /\ err' = "none"
    /\ i' = 0
    /\ items' = << >>
    /\ messages' = << >>
    /\ UNCHANGED << mailbox, order, tool, pages, page_token, confirm, inbox_id >>

\* generate -> get_inbox_summary(query, limit=100) -> get_emails up to its
\* list call: a fresh, non-empty entry of the message cache is the list.
digest_generate ==
    /\ pc = "dg_generate"
    /\ LET cached == GetCachedEmails(CacheKey(query, limit[1]), now)
       IN  IF cached # None /\ cached[1] # << >>
           THEN AfterEmails(cached[1])
           ELSE /\ pc' = "dg_list"
                /\ UNCHANGED << messages, items, i, ret, err >>
    /\ UNCHANGED << mailbox, order, tool, runs, cmd, query, limit, pages, ids,
                    page_token, calls, confirm, inbox_id, j, opts, now, cache >>

\* get_emails: the list call (gmail.py:91-100); a failed call and an empty
\* result give [] and end the digest.
digest_list ==
    /\ pc = "dg_list"
    /\ \E ok \in BOOLEAN :
         /\ calls' = Append(calls,
                Call("list", [ q |-> query, maxResults |-> limit[1],
                               pageToken |-> None ], ok))
         /\ LET found == IF ok THEN ProviderPages(query, limit[1])[1] ELSE << >>
            IN  IF found = << >>
                THEN /\ AfterEmails(<< >>)
                     /\ ids' = ids
                ELSE /\ ids' = found
                     /\ i' = 1
                     /\ pc' = "dg_get"
                     /\ UNCHANGED << messages, items, ret, err >>
    /\ UNCHANGED << mailbox, order, tool, runs, cmd, query, limit, pages,
                    page_token, confirm, inbox_id, j, opts, now, cache >>

\* messages().get(format="full") gives the whole message.
FullMessage(acc, mid, ok) == IF ok THEN Append(acc, AIMessage(mid)) ELSE acc

\* get_emails: one iteration of the fetch loop, and after the last one the
\* cache write and the return to get_inbox_summary (gmail.py:114-132).
digest_get ==
    /\ pc = "dg_get"
    /\ \E ok \in Outcomes(ids[i]) :
         LET full_messages == FullMessage(messages, ids[i], ok)
         IN  /\ calls' = Append(calls,
                    Call("get", [ id |-> ids[i], format |-> "full" ], ok))
             /\ IF i < Len(ids)
                THEN /\ i' = i + 1
                     /\ messages' = full_messages
                     /\ UNCHANGED << pc, items, ret, err, cache >>
                ELSE /\ cache' = CacheEmails(CacheKey(query, limit[1]), full_messages)
                     /\ AfterEmails(full_messages)
    /\ UNCHANGED << mailbox, order, tool, runs, cmd, query, limit, pages, ids,
                    page_token, confirm, inbox_id, j, opts, now >>

\* batch_analyze: one iteration of its loop, and after the last one the cache
\* write (an OSError leaves the digest) and the rest of generate.
digest_analyze ==
    /\ pc = "dg_analyze"
    /\ \E outcome \in DigestOutcomes :
         LET to_analyze == Take(messages, limit[1])
             res == AnalyzeEmail(BatchEnvironment, to_analyze[i], outcome)
             analyses == Append(items, res.analysis)
         IN  /\ calls' = Append(calls, res.call)
             /\ items' = analyses
             /\ IF i < Len(to_analyze)
                THEN /\ i' = i + 1
                     /\ UNCHANGED << pc, ret, err, cache >>
                ELSE /\ i' = i
                     /\ \E written \in BOOLEAN :
                          IF written
                          THEN /\ cache' = CacheAnalyses(BatchCacheKey(to_analyze), analyses)
                               /\ AfterAnalyses(analyses)
                          ELSE /\ cache' = cache
                               /\ ret' = ret
                               /\ pc' = "raised"
                               /\ err' = "OSError"
    /\ UNCHANGED << mailbox, order, tool, runs, cmd, query, limit, pages, ids,
                    page_token, confirm, inbox_id, j, opts, messages, now >>

InitDigest ==
    /\ mailbox \in [ 1..2 -> LabelChoices ]
    /\ order = << 2, 1 >>
    /\ tool = "digest_cli"
    /\ runs = 0
    /\ pc = "idle"
    /\ cmd = "none"
    /\ query = "none"
    /\ limit = None
    /\ pages = << >>
    /\ ids = << >>
    /\ page_token = None
    /\ calls = << >>
    /\ ret = None
    /\ err = "none"
    /\ confirm = None
    /\ inbox_id = None
    /\ i = 0
    /\ j = 0
    /\ items = << >>
    /\ opts = None
    /\ messages = << >>
    /\ now = 0
    /\ cache = << >>

NextDigest ==
    \/ digest_start
    \/ digest_generate
    \/ digest_list
    \/ digest_get
    \/ digest_analyze

SpecDigest == InitDigest /\ [][NextDigest]_vars

---------------------------------------------------------------------------
(* inboxy preview sessions: several limits, and a mailbox beyond the cap *)

\* The sessions of inboxy preview, with nothing in the cache directory: the
\* last two invocations of a session on a small mailbox, or the last
\* invocation on a mailbox of one message more than preview --delete /
\* --archive lists (the messages MaxSmall, MaxSmall + 1, ... in that order;
\* the first is the one whose calls can fail). Every message is in the inbox.
InitPreview ==
    /\ tool = "preview"
    /\ \E n \in (0..MaxSmall) \cup { CliMutateMax + 1 } :
         /\ order = [ k \in 1..n |->
                        IF n <= MaxSmall THEN n + 1 - k ELSE MaxSmall - 1 + k ]
         /\ mailbox = IF n <= MaxSmall THEN [ m \in 1..n |-> { "INBOX", "UNREAD" } ]
                      ELSE [ m \in MaxSmall..(MaxSmall - 1 + n) |->
                               { "INBOX", "UNREAD" } ]
         /\ runs = IF n <= MaxSmall THEN MaxRuns - 2 ELSE MaxRuns - 1
    /\ pc = "idle"
    /\ cmd = "none"
    /\ query = "none"
    /\ limit = None
    /\ pages = << >>
    /\ ids = << >>
    /\ page_token = None
    /\ calls = << >>
    /\ ret = None
    /\ err = "none"
    /\ confirm = None
    /\ inbox_id = None
    /\ i = 0
    /\ j = 0
    /\ items = << >>
    /\ opts = None
    /\ messages = << >>
    /\ now = 0
    /\ cache = << >>

NextPreview ==
    \/ preview_start
    \/ get_emails_list
    \/ get_emails_get
    \/ cli_confirm
    \/ cli_mutate

SpecPreview == InitPreview /\ [][NextPreview]_vars

---------------------------------------------------------------------------
\* Every operation on the mailbox, each from its own initial states.
Init == InitMutate \/ InitHydrate \/ InitList

Next == NextMutate \/ NextHydrate \/ NextList

Spec == Init /\ [][Next]_vars

\* The classifier: analyze_email alone, and batch_analyze sessions.
InitAI == InitAnalyze \/ InitBatch

NextAI == NextAnalyze \/ NextBatch

SpecAI == InitAI /\ [][NextAI]_vars

\* The sessions that use the .cache directory: the message cache of
\* get_emails and the analysis cache of batch_analyze.
InitCache == InitMutate \/ InitBatch

NextCache == NextMutate \/ NextBatch

SpecCache == InitCache /\ [][NextCache]_vars

---------------------------------------------------------------------------
(* Properties *)

MutationOps == { "batchDelete", "batchModify", "delete", "modify" }

DeleteOps == { "batchDelete", "delete" }

ModifyOps == { "batchModify", "modify" }

\* The mutation calls of the running invocation, in the order issued.
MutationCalls == SelectSeq(calls, LAMBDA c : c.op \in MutationOps)

\* The answers that say yes: 'yes' in any case, with blanks around it, at the
\* clean.py prompt; True from click.confirm.
AffirmativeInputs == { << "y", "e", "s" >>, << " ", "Y", "e", "S", "\n" >> }

Affirmed ==
    /\ confirm # None
    /\ IF tool = "clean" THEN confirm[1] \in AffirmativeInputs
       ELSE confirm[1] = TRUE

\* The step issues a mutation call.
IssuesMutation ==
    /\ Len(calls') = Len(calls) + 1
    /\ calls'[Len(calls')].op \in MutationOps

\* The invocation is over: it returned or raised.
Over == pc \in { "done", "raised" }

\* What one mutation call carries: a chunk of ids in clean.py, one message in
\* cli preview.
Units ==
    IF tool = "clean" THEN Chunked(ids, ChunkSize)
    ELSE [ k \in 1..Len(messages) |-> << messages[k].id >> ]

\* The identifiers the provider mutated in this invocation.
Applied ==
    UNION { Range(MutationCalls[k].args.ids) :
              k \in { n \in 1..Len(MutationCalls) : MutationCalls[n].ok } }

\* C1: a step issues a mutation call (batchDelete, batchModify, delete,
\* modify) or changes the mailbox only when the caller answered yes earlier
\* in the same invocation; after a declined prompt no mutation call is issued
\* and the mailbox stays as it was.
C1_ConfirmationGate ==
    [][ (IssuesMutation \/ mailbox' # mailbox) => Affirmed ]_vars

\* C1 witness: a delete of more than one chunk was declined with the answer "y".
C1_Witness ==
    /\ tool = "clean"
    /\ cmd = "delete_by_query"
    /\ pc = "done"
    /\ confirm = Some(<< "y" >>)
    /\ Len(ids) > ChunkSize
    /\ MutationCalls = << >>

\* C2 (as claimed): a confirmed delete_by_query over n identifiers has
\* issued, when it is over, exactly ceil(n/500) batch calls,
\* each of 500 identifiers except possibly the last, none empty, whose
\* concatenation is the identifier sequence; 1001 identifiers give 500, 500, 1.
C2_Chunking ==
    (cmd = "delete_by_query" /\ Over /\ Affirmed) =>
        LET n == Len(ids)
            sent == [ k \in 1..Len(MutationCalls) |-> MutationCalls[k].args.ids ]
        IN  /\ Len(sent) = (n + ChunkSize - 1) \div ChunkSize
            /\ \A k \in 1..Len(sent) :
                 /\ sent[k] # << >>
                 /\ k < Len(sent) => Len(sent[k]) = ChunkSize
                 /\ Len(sent[k]) <= ChunkSize
            /\ Concat(sent) = ids
            /\ n = 2 * ChunkSize + 1 =>
                 [ k \in 1..Len(sent) |-> Len(sent[k]) ] = << ChunkSize, ChunkSize, 1 >>

\* C3 (as claimed): when a mutation call of a confirmed invocation failed,
\* the calls for all later chunks were still issued: at the end there is one
\* call per chunk.
C3_FailureIsolation ==
    (Over /\ \E k \in 1..Len(MutationCalls) : ~MutationCalls[k].ok) =>
        Len(MutationCalls) = Len(Units)

WantsDelete ==
    \/ cmd = "delete_by_query"
    \/ cmd = "preview" /\ opts[1].delete /\ ~opts[1].archive

WantsArchive ==
    \/ cmd = "archive_by_query"
    \/ cmd = "preview" /\ opts[1].archive /\ ~opts[1].delete

\* C5: every mutation call of a delete is a permanent delete (batchDelete,
\* delete), every mutation call of an archive is a label modification that
\* removes exactly INBOX and adds nothing, and no invocation issues both kinds.
C5_ActionDispatch ==
    /\ \A k \in 1..Len(MutationCalls) :
         LET c == MutationCalls[k]
         IN  /\ WantsDelete => c.op \in DeleteOps
             /\ WantsArchive =>
                  /\ c.op \in ModifyOps
                  /\ c.args.removeLabelIds = { "INBOX" }
                  /\ c.args.addLabelIds = { }
    /\ ~ /\ \E k \in 1..Len(MutationCalls) : MutationCalls[k].op \in DeleteOps
         /\ \E k \in 1..Len(MutationCalls) : MutationCalls[k].op \in ModifyOps

\* C5 witness: an archive_by_query of two chunks ran to its end.
C5_Witness ==
    /\ cmd = "archive_by_query"
    /\ pc = "done"
    /\ Len(MutationCalls) = 2
    /\ \A k \in 1..2 : MutationCalls[k].ok

\* C6: an archive call that the provider accepts for identifiers whose inbox
\* label is already absent leaves the mailbox as it is and raises nothing: a
\* second archive of the same identifiers ends in the state of the first.
C6_ArchiveIdempotent ==
    [][ ( /\ Len(calls') = Len(calls) + 1
          /\ calls'[Len(calls')].op \in ModifyOps
          /\ calls'[Len(calls')].ok
          /\ \A m \in Range(calls'[Len(calls')].args.ids) :
                m \in DOMAIN mailbox /\ "INBOX" \notin mailbox[m] )
        => (mailbox' = mailbox /\ pc' # "raised") ]_vars

\* C6 witness: the second archive_by_query of the session, over identifiers
\* that all lost the inbox label already (more than one chunk of a mailbox
\* that started with every message in the inbox), has had its first call
\* accepted.
C6_Witness ==
    /\ tool = "clean"
    /\ runs = 2
    /\ cmd = "archive_by_query"
    /\ pc = "batch"
    /\ i = 2
    /\ Len(ids) > ChunkSize
    /\ MutationCalls[1].ok
    /\ \A m \in Range(ids) : "INBOX" \notin mailbox[m]

\* The list calls consumed every page: the last response carried no token.
Exhausted == Len(calls) = Len(pages)

\* C7 (as claimed): for every limit L >= 0, list_message_ids returns at most
\* L identifiers, and fewer than L only when the pagination is exhausted.
C7_ListingBound ==
    (cmd = "list_message_ids" /\ pc = "done" /\ limit # None) =>
        /\ Len(ret[1]) <= limit[1]
        /\ Len(ret[1]) < limit[1] => Exhausted

\* The number of identifiers on the provider's first k pages.
Total(k) == Len(Concat(SubSeq(pages, 1, k)))

IsPrefix(s, t) == Len(s) <= Len(t) /\ s = SubSeq(t, 1, Len(s))

\* C8: the result of list_message_ids is a prefix of the concatenation, in
\* the order returned, of the pages its calls received; when the limit falls
\* inside a page (more than the pages before it hold, at most what they hold
\* with it) the result has exactly limit identifiers.
C8_ListingOrder ==
    (cmd = "list_message_ids" /\ pc = "done") =>
        /\ IsPrefix(ret[1], Concat(SubSeq(pages, 1, Len(calls))))
        /\ limit # None =>
             ( (\E k \in 1..Len(pages) : Total(k - 1) < limit[1] /\ limit[1] <= Total(k))
               => Len(ret[1]) = limit[1] )

\* C8 witness: limit 1 was reached inside a first page of two identifiers
\* that are not in ascending order.
C8_Witness ==
    /\ cmd = "list_message_ids"
    /\ pc = "done"
    /\ limit = Some(1)
    /\ pages[1] = << 2, 1 >>
    /\ ret = Some(<< 2 >>)

\* C9 (as claimed): when a list call of the invocation failed, the operation
\* was left by the error and returned nothing.
C9_ListFailureSurfaces ==
    (\E k \in 1..Len(calls) : calls[k].op = "list" /\ ~calls[k].ok) =>
        (pc = "raised" /\ err = "HttpError" /\ ret = None)

\* The fetch calls of the running invocation, in the order issued.
GetCalls == SelectSeq(calls, LAMBDA c : c.op = "get")

\* C10: in batch_get and in get_emails every identifier is fetched in input
\* order whether or not an earlier fetch failed, the collected records are
\* exactly those of the fetches that succeeded, in that order, with nothing
\* standing for a failed one, no error leaves the operation, and that list
\* is what is returned.
C10_HydrationPartial ==
    cmd \in { "batch_get", "preview" } =>
        LET fetched == SelectSeq(GetCalls, LAMBDA c : c.ok)
        IN  /\ items = [ k \in 1..Len(fetched) |-> [ id |-> fetched[k].args.id ] ]
            /\ Len(GetCalls) <= Len(ids)
            /\ \A k \in 1..Len(GetCalls) : GetCalls[k].args.id = ids[k]
            /\ pc # "raised"
            /\ (cmd = "batch_get" /\ pc = "done") =>
                 (Len(GetCalls) = Len(ids) /\ ret = Some(items))
            /\ (cmd = "preview" /\ GetCalls # << >> /\ pc # "ge_get") =>
                 (Len(GetCalls) = Len(ids) /\ messages = items)

\* C10 witness: batch_get over three identifiers whose second fetch failed
\* returned the first and the third record.
C10_Witness ==
    /\ cmd = "batch_get"
    /\ pc = "done"
    /\ ids = << 2, 3, 1 >>
    /\ ~GetCalls[2].ok
    /\ ret = Some(<< [ id |-> 2 ], [ id |-> 1 ] >>)

\* The chunk sizes batch_get is compared under: one identifier per chunk, two,
\* one short of the real size, the real size, and one chunk for everything.
ChunkSizes == { 1, 2, HydrateChunk - 1, HydrateChunk, Len(ids) }

\* The outcome of the k-th fetch of the invocation (a fetch never issued
\* counts as failed).
FetchOk == [ k \in 1..(2 * Len(ids) + 1) |-> k <= Len(calls) /\ calls[k].ok ]

\* C11: when batch_get has returned, the list it returned and the get calls
\* it issued, in order, are those of batch_get run with any other chunk size
\* (1, 2, 99, 100, or one chunk holding every identifier) over the same
\* identifiers with the same outcome for every fetch.
C11_ChunkingTransparent ==
    (cmd = "batch_get" /\ pc = "done" /\ ids # << >>) =>
        \A size \in ChunkSizes :
            LET other == BatchGetWith(size, ids, FetchOk)
            IN  /\ ret = Some(other.items)
                /\ calls = other.calls

\* C11 witness: 201 identifiers (two full chunks and one more) were fetched,
\* the last fetch of the first chunk failed and the first fetch of the second
\* chunk succeeded, as did the only fetch of the third chunk.
C11_Witness ==
    /\ cmd = "batch_get"
    /\ pc = "done"
    /\ Len(ids) = 2 * HydrateChunk + 1
    /\ ~calls[HydrateChunk].ok
    /\ calls[HydrateChunk + 1].ok
    /\ calls[2 * HydrateChunk + 1].ok
    /\ Len(ret[1]) >= 2

\* C12 (as claimed): for every entry put in the cache, a get of its key at an
\* elapsed time since the put of at most the TTL, the TTL itself included,
\* returns the payload that was put, and a get after more than the TTL returns
\* absent with the entry still in storage.
C12_CacheRoundTrip ==
    \A key \in DOMAIN cache :
        LET elapsed == now - cache[key].mtime
        IN  /\ elapsed <= cache_ttl =>
                 GetCachedEmails(key, now) = Some(cache[key].payload)
            /\ elapsed > cache_ttl => GetCachedEmails(key, now) = None

\* C16: whenever the scoring call of analyze_email fails (timeout, malformed
\* answer, answer rejected by the response model), the analysis returned is
\* for the record's message id with category FYI_REVIEW, priority 1, summary
\* "Unable to analyze email", no key points, no action and no calendar event,
\* whatever the failure and whatever the record.
C16_DeterministicFallback ==
    cmd = "analyze_email" =>
        \A k \in 1..Len(items) :
            ~calls[k].ok =>
                /\ items[k].message_id = messages[1].id
                /\ items[k].category.name = "FYI_REVIEW"
                /\ items[k].priority.value = 1
                /\ items[k].summary = "Unable to analyze email"
                /\ items[k].key_points = << >>
                /\ items[k].action_needed = None
                /\ items[k].calendar_event = None

\* C16 witness: the message from corp.com was analysed twice, by an EmailAI
\* that counts the sender as important: the first call timed out and the
\* second answered with priority 6, which the response model rejects.
C16_Witness ==
    /\ cmd = "analyze_email"
    /\ Len(items) = 2
    /\ messages[1].id = 1
    /\ calls[1].outcome.kind = "timeout"
    /\ calls[1].args.prompt.important
    /\ calls[2].outcome.kind = "response"
    /\ calls[2].outcome.response.priority = 6
    /\ ~calls[2].ok
    /\ items[1] = items[2]

\* C20: two analyze_email runs on the same record whose scoring calls had the
\* same outcome (the same answer, or the same failure) return the same
\* category and priority whatever the important-domain and VIP-contact lists
\* of each run; for a sender the prompt marks as important the category and
\* priority are still the scorer's when its answer is accepted and the
\* fallback's (FYI_REVIEW, 1) when it is not.
C20_HintDoesNotOverride ==
    cmd = "analyze_email" =>
        /\ \A a \in 1..Len(items), b \in 1..Len(items) :
             calls[a].outcome = calls[b].outcome =>
                /\ items[a].category = items[b].category
                /\ items[a].priority = items[b].priority
        /\ \A k \in 1..Len(items) :
             calls[k].args.prompt.important =>
                LET scored == calls[k].outcome
                    accepted ==
                        /\ calls[k].ok
                        /\ scored.response.category \in
                               { e.value : e \in EmailCategoryMembers }
                IN  IF accepted
                    THEN /\ items[k].category.value = scored.response.category
                         /\ items[k].priority.value = scored.response.priority
                    ELSE /\ items[k].category.value = "fyi_review"
                         /\ items[k].priority.value = 1

\* C20 witness: the message from corp.com was analysed by an EmailAI with
\* empty lists and by one that lists corp.com, so that only the second prompt
\* carries the important-sender mark; the scorer answered "newsletter" both
\* times.
C20_Witness ==
    /\ cmd = "analyze_email"
    /\ Len(items) = 2
    /\ ~calls[1].args.prompt.important
    /\ calls[2].args.prompt.important
    /\ calls[1].outcome = calls[2].outcome
    /\ calls[1].ok
    /\ items[2].category.name = "NEWSLETTER"

\* The entry stored for the key of the running get_emails is fresh whichever
\* way the boundary is read: it is younger than the TTL.
FreshEntryStored ==
    LET key == CacheKey(query, MaxResults(opts[1]))
    IN  key \in DOMAIN cache /\ now - cache[key].mtime < cache_ttl

\* C14 (as claimed): get_emails (caching enabled) issues no remote call while
\* a fresh entry is stored for its (query, max_results), whatever the payload
\* of the entry: it is never found fetching after a list call with such an
\* entry in storage.
C14_CacheBeforeNetwork ==
    (cmd = "preview" /\ pc = "ge_get") => ~FreshEntryStored

\* The cache key of the running get_emails / batch_analyze.
RunningKey ==
    IF cmd' = "preview" THEN CacheKey(query', MaxResults(opts'[1]))
    ELSE BatchCacheKey(Take(messages', limit'[1]))

\* The payload stored for what the running operation produced.
ProducedPayload ==
    IF cmd' = "preview" THEN messages'
    ELSE [ k \in 1..Len(ret'[1]) |-> ToDict(ret'[1][k]) ]

\* C13: the step in which get_emails or batch_analyze reads the cache leaves
\* every entry and every creation time as it was, whether the entry of its
\* key is fresh, stale or missing; no step removes an entry, and an entry is
\* created or changed only by the put that ends a produce for its key, which
\* stores what was produced with the current time as creation time.
C13_CacheGetReadOnly ==
    [][ /\ runs' # runs => cache' = cache
        /\ DOMAIN cache \subseteq DOMAIN cache'
        /\ \A k \in DOMAIN cache' :
             (k \notin DOMAIN cache \/ cache'[k] # cache[k]) =>
                /\ k = RunningKey
                /\ pc' # "raised"
                /\ cache'[k] = [ payload |-> ProducedPayload, mtime |-> now' ] ]_vars

\* C13 witness: the second batch_analyze of a session read the cache more
\* than the TTL after the first one wrote the entry of the same batch; the
\* stale entry is still stored, with its creation time, while the batch is
\* analysed again.
C13_Witness ==
    /\ cmd = "batch_analyze"
    /\ runs = 2
    /\ pc = "ba_analyze"
    /\ BatchCacheKey(MessagesToAnalyze) \in DOMAIN cache
    /\ cache[BatchCacheKey(MessagesToAnalyze)].mtime = 0
    /\ now > EmailAI_cache_ttl
    /\ Len(cache[BatchCacheKey(MessagesToAnalyze)].payload) = 2

Min(a, b) == IF a < b THEN a ELSE b

\* The number of records batch_analyze is to classify: min(len(messages), limit).
BatchSize == Min(Len(messages), limit[1])

\* batch_analyze returned a stored result: it is over without a scoring call
\* and with a non-empty list.
Hit == pc = "done" /\ calls = << >> /\ ret # None /\ ret[1] # << >>

\* C15 (as claimed): once batch_analyze has classified every record of its
\* batch it returns the analyses it computed to its caller, whether or not
\* the write of the cache file succeeded.
C15_CacheWriteSwallowed ==
    (cmd = "batch_analyze" /\ BatchSize > 0 /\ Len(calls) = BatchSize) =>
        (pc = "done" /\ ret = Some(items))

\* An analysis is in the domain: its category is one of the eight members
\* and its priority one of the five, with value 1..5.
InDomain(a) ==
    /\ a.category \in EmailCategoryMembers
    /\ a.priority \in PriorityMembers
    /\ a.priority.value \in 1..5

\* The scorer's answer carries a category or a priority outside the domain.
OutOfDomain(outcome) ==
    /\ outcome.kind = "response"
    /\ \/ outcome.response.category \notin { e.value : e \in EmailCategoryMembers }
       \/ outcome.response.priority \notin 1..5

\* C17: every analysis that analyze_email or batch_analyze made or returned,
\* a result read from the cache included, has one of the eight categories and
\* a priority in 1..5; when the scorer's answer has a category or a priority
\* outside the domain the record's analysis is the fallback (FYI_REVIEW, 1,
\* "Unable to analyze email"), not the answer and not a nearby valid value.
C17_AnalysisDomain ==
    /\ \A k \in 1..Len(items) : InDomain(items[k])
    /\ (cmd = "analyze_email" /\ ret # None) => InDomain(ret[1])
    /\ (cmd = "batch_analyze" /\ ret # None) =>
           \A k \in 1..Len(ret[1]) : InDomain(ret[1][k])
    /\ \A k \in 1..Len(calls) :
           OutOfDomain(calls[k].outcome) =>
               /\ items[k].category.name = "FYI_REVIEW"
               /\ items[k].priority.value = 1
               /\ items[k].summary = "Unable to analyze email"

\* C17 witness: a batch of two was returned whose first answer had the
\* category "urgent" and whose second had a priority above 5; both analyses
\* are the fallback.
C17_Witness ==
    /\ cmd = "batch_analyze"
    /\ pc = "done"
    /\ Len(calls) = 2
    /\ calls[1].outcome.kind = "response"
    /\ calls[1].outcome.response.category = "urgent"
    /\ calls[2].outcome.kind = "response"
    /\ calls[2].outcome.response.priority > 5
    /\ ret[1][1].category.name = "FYI_REVIEW"
    /\ ret[1][2].priority.value = 1

\* C18: on a cache miss batch_analyze keeps one analysis per scoring call,
\* the k-th for the k-th record, whatever scoring calls failed; no failure of
\* a scoring call leaves it (the one error that can leave it is that of the
\* cache write, after every record was classified); and when it returns it
\* returns those analyses, exactly min(len(records), limit) of them.
C18_ClassificationContained ==
    (cmd = "batch_analyze" /\ ~Hit) =>
        /\ Len(items) = Len(calls)
        /\ Len(items) <= BatchSize
        /\ \A k \in 1..Len(items) : items[k].message_id = messages[k].id
        /\ pc = "raised" => (err = "OSError" /\ Len(calls) = BatchSize)
        /\ pc = "done" => (ret = Some(items) /\ Len(items) = BatchSize)

\* C18 witness: with the default limit, a batch of two whose first scoring
\* call timed out and whose second answer was rejected was returned with two
\* analyses, for messages 2 and 1 in that order.
C18_Witness ==
    /\ cmd = "batch_analyze"
    /\ pc = "done"
    /\ limit = Some(BatchLimitDefault)
    /\ Len(messages) = 2
    /\ calls[1].outcome.kind = "timeout"
    /\ ~calls[2].ok
    /\ Len(ret[1]) = 2
    /\ ret[1][1].message_id = 2
    /\ ret[1][2].message_id = 1

\* The cache entry of the running batch_analyze, when there is one.
BatchKey == BatchCacheKey(Take(messages, limit[1]))

\* What holds of every batch_analyze, empty batch or not: the scoring calls
\* issued so far are for the first records of the cut list, in input order,
\* one each; while records are being classified no entry younger than the TTL
\* is stored for the batch; a stored result is returned without a scoring
\* call, as it was stored, and only while it is younger than the TTL.
BatchCachingSteps ==
    /\ Len(calls) <= BatchSize
    /\ \A k \in 1..Len(calls) :
         calls[k].args.prompt =
             BuildAnalysisPrompt(opts[1], GetHeaders(messages[k]), GetBody(messages[k]))
    /\ pc = "ba_analyze" =>
         (BatchKey \in DOMAIN cache => now - cache[BatchKey].mtime >= EmailAI_cache_ttl)
    /\ Hit =>
         /\ BatchKey \in DOMAIN cache
         /\ now - cache[BatchKey].mtime < EmailAI_cache_ttl
         /\ ret[1] = [ k \in 1..Len(cache[BatchKey].payload) |->
                         FromDict(cache[BatchKey].payload[k]) ]

\* The whole result of the batch_analyze that just returned is stored under
\* the key of its batch, written at the current time.
ResultStored ==
    /\ BatchKey \in DOMAIN cache
    /\ cache[BatchKey] = [ payload |-> [ k \in 1..Len(ret[1]) |-> ToDict(ret[1][k]) ],
                           mtime |-> now ]

Prepared == cmd = "prepare_data" /\ pc = "done"

\* The position in items of the analysis an urgent item links to (message k
\* is the k-th analysis).
Linked(item) == item.gmail_link[2]

\* The analysis at position m comes before the one at position n in the
\* stable descending order of priority.
Precedes(m, n) ==
    \/ items[m].priority.value > items[n].priority.value
    \/ /\ items[m].priority.value = items[n].priority.value
       /\ m < n

Qualifies(a) == a.priority.value >= 4 \/ a.category = Member(EmailCategoryMembers, "action_required")

TwoHighTenUrgent == Analyses(Repeat(Urgent(4), 2) \o Repeat(Urgent(5), 10))

\* C21: urgent_items are the first at most 5 of the analyses, stably sorted by
\* descending priority, that have priority >= 4 or category ACTION_REQUIRED:
\* at most 5 entries, each made from a qualifying analysis, in non-increasing
\* priority with equal priorities in their original order, and an analysis
\* that qualifies is left out only when 5 entries precede it. For 10 analyses
\* of priority 5 and 2 of priority 4 there are 5 entries, all of priority 5.
C21_UrgentItems ==
    Prepared =>
        LET urgent == ret[1].urgent_items
        IN  /\ Len(urgent) <= 5
            /\ \A k \in 1..Len(urgent) :
                 /\ Linked(urgent[k]) \in 1..Len(items)
                 /\ Qualifies(items[Linked(urgent[k])])
                 /\ urgent[k].summary = items[Linked(urgent[k])].summary
            /\ \A k \in 1..Len(urgent), l \in 1..Len(urgent) :
                 k < l => Precedes(Linked(urgent[k]), Linked(urgent[l]))
            /\ \A n \in 1..Len(items) :
                 (Qualifies(items[n]) /\ \A k \in 1..Len(urgent) : Linked(urgent[k]) # n)
                 => /\ Len(urgent) = 5
                    /\ \A k \in 1..Len(urgent) : Precedes(Linked(urgent[k]), n)
            /\ items = TwoHighTenUrgent
               => /\ Len(urgent) = 5
                  /\ \A k \in 1..Len(urgent) :
                       items[Linked(urgent[k])].priority.value = 5

\* The twelve analyses of the example were assembled: the two of priority 4
\* come first in the list and none of them is among the five entries.
C21_Witness ==
    /\ Prepared
    /\ items = TwoHighTenUrgent
    /\ Len(ret[1].urgent_items) = 5
    /\ Linked(ret[1].urgent_items[1]) = 3

\* The positions in items of the deletable analyses
DeletablePositions ==
    { k \in 1..Len(items) : items[k].category.name \in DeletableCategories }

\* The deletable analyses whose sender has the group key domain
GroupMembers(domain) ==
    { k \in DeletablePositions : Domain(items[k].sender) = domain }

\* The group keys with at least 2 deletable analyses
QualifyingDomains ==
    { d \in { Domain(items[k].sender) : k \in DeletablePositions } :
        Cardinality(GroupMembers(d)) >= 2 }

\* The domain of a delete group, read from its name "From <domain>"
GroupDomain(group) == Tail(group.name)

FiveOneThree ==
    Analyses(Repeat(Bulk("a.com"), 5) \o Repeat(Bulk("b.com"), 1) \o Repeat(Bulk("c.com"), 3))

\* C22: delete_groups holds at most 3 groups, each of a different sender
\* domain with at least 2 deletable analyses and with their number as count,
\* in non-increasing order of count; it holds 3 groups, or all qualifying
\* domains when there are fewer, and a qualifying domain that is left out is
\* no larger than any group listed. For a.com: 5, b.com: 1, c.com: 3 the
\* groups are a.com then c.com.
C22_DeleteGroups ==
    Prepared =>
        LET groups == ret[1].delete_groups
        IN  /\ Len(groups) <= 3
            /\ \A k \in 1..Len(groups) :
                 /\ GroupDomain(groups[k]) \in QualifyingDomains
                 /\ groups[k].count = Cardinality(GroupMembers(GroupDomain(groups[k])))
                 /\ groups[k].count >= 2
            /\ \A k \in 1..Len(groups), l \in 1..Len(groups) :
                 k < l => /\ groups[k].count >= groups[l].count
                          /\ GroupDomain(groups[k]) # GroupDomain(groups[l])
            /\ Len(groups) = Min(3, Cardinality(QualifyingDomains))
            /\ \A d \in QualifyingDomains :
                 (\A k \in 1..Len(groups) : GroupDomain(groups[k]) # d)
                 => \A k \in 1..Len(groups) : groups[k].count >= Cardinality(GroupMembers(d))
            /\ items = FiveOneThree
               => /\ Len(groups) = 2
                  /\ GroupDomain(groups[1]) = << "a.com" >>
                  /\ GroupDomain(groups[2]) = << "c.com" >>

\* Bulk mail of four domains was grouped: the first domain has one message,
\* the three others two each, and the three are the groups.
C22_Witness ==
    /\ Prepared
    /\ Cardinality(GroupMembers(<< "a.com" >>)) = 1
    /\ Cardinality(QualifyingDomains) = 3
    /\ Len(ret[1].delete_groups) = 3
    /\ GroupDomain(ret[1].delete_groups[1]) = << "b.com" >>

\* C23: delete_count is the number of analyses of category NEWSLETTER,
\* PROMOTION, SOCIAL or AUTO_DELETE, action_count the number of analyses of
\* category ACTION_REQUIRED and total_count the number of analyses, whatever
\* the urgent items and delete groups listed.
C23_DigestCounts ==
    Prepared =>
        /\ ret[1].delete_count =
             Cardinality({ k \in 1..Len(items) :
                 items[k].category.value \in
                     { "newsletter", "promotion", "social", "auto_delete" } })
        /\ ret[1].action_count =
             Cardinality({ k \in 1..Len(items) :
                 items[k].category.value = "action_required" })
        /\ ret[1].total_count = Len(items)

\* More analyses ask for an action than the 5 urgent items listed.
C23_Witness ==
    /\ Prepared
    /\ ret[1].action_count > 5
    /\ Len(ret[1].urgent_items) = 5
    /\ ret[1].total_count > ret[1].action_count

\* What follows the first '@' of s, to the end of s
RECURSIVE AfterFirstAt(_)
AfterFirstAt(s) ==
    IF s = << >> THEN << >>
    ELSE IF Head(s) = "@" THEN Tail(s) ELSE AfterFirstAt(Tail(s))

\* What follows the first '@' of s, up to the next '@' or the end of s
RECURSIVE UpToAt(_)
UpToAt(s) ==
    IF s = << >> \/ Head(s) = "@" THEN << >> ELSE << Head(s) >> \o UpToAt(Tail(s))

\* The bracketed address of a sender, or the whole sender without brackets
Bracketed(sender) ==
    IF \E k \in 1..Len(sender) : sender[k] = "<"
    THEN LET open == CHOOSE k \in 1..Len(sender) :
                         sender[k] = "<" /\ \A l \in 1..(k - 1) : sender[l] # "<"
             rest == SubSeq(sender, open + 1, Len(sender))
         IN  SelectSeq([ k \in 1..Len(rest) |->
                           IF \E l \in 1..k : rest[l] \in { ">", "<" } THEN "" ELSE rest[k] ],
                       LAMBDA c : c # "")
    ELSE sender

\* The group keys the sender may have: the text after '@' of its address
\* (all of it, or up to a second '@'), "unknown" without an '@'
GroupKeys(sender) ==
    IF \E k \in 1..Len(sender) : sender[k] = "@"
    THEN { AfterFirstAt(Bracketed(sender)), UpToAt(AfterFirstAt(Bracketed(sender))) }
    ELSE { << "unknown" >> }

\* C24: _prepare_data computes a group key for every sender without failing:
\* it returns, and every group it lists is named by the key of the senders of
\* its samples.
C24_GroupingKey ==
    (cmd = "prepare_data" /\ pc # "idle") =>
        /\ pc = "done"
        /\ \A g \in 1..Len(ret[1].delete_groups) :
             \A n \in 1..Len(ret[1].delete_groups[g].samples) :
                GroupDomain(ret[1].delete_groups[g])
                  \in GroupKeys(items[Linked(ret[1].delete_groups[g].samples[n])].sender)

\* C25: _prepare_data issues no remote call, changes no message and no cache
\* entry, and leaves its list of analyses as it was, in the same order; the
\* query of each delete group it returns is "from:@" followed by the
\* group's domain.
C25_AssembleNoSideEffect ==
    [][(cmd = "prepare_data" /\ pc = "idle") =>
          /\ calls' = calls
          /\ mailbox' = mailbox
          /\ order' = order
          /\ cache' = cache
          /\ items' = items
          /\ pc' = "done" =>
               \A g \in 1..Len(ret'[1].delete_groups) :
                  ret'[1].delete_groups[g].query
                    = << "from:@" >> \o GroupDomain(ret'[1].delete_groups[g])]_vars

\* A digest with a delete group was assembled from a list that is not in
\* descending order of priority, beside a mailbox and a cache entry.
C25_Witness ==
    /\ Prepared
    /\ ret[1].delete_groups # << >>
    /\ \E k \in 1..(Len(items) - 1) :
         items[k].priority.value < items[k + 1].priority.value
    /\ DOMAIN mailbox # { }
    /\ DOMAIN cache # { }

\* The puts to key that have finished, in the order they finished
FinishedPuts(key) ==
    SelectSeq(calls, LAMBDA c : c.op = "put" /\ c.args.key = key)

\* The processes with a put to key under way
PuttingTo(key) ==
    { p \in Procs : pc[p] \in { "put_open", "put_write" } /\ opts[p].key = key }

\* No get has failed, and what a get returned is absent or the complete
\* payload of a process.
GetsAreWhole ==
    \A p \in Procs :
        /\ pc[p] # "raised"
        /\ (ret[p] # None /\ ret[p][1] # None) => \E q \in Procs : ret[p][1] = Text(q)

\* With no put to a key under way, its entry holds the complete payload of
\* the put to it that finished last.
LastPutWins ==
    \A key \in RaceKeys :
        (PuttingTo(key) = { } /\ FinishedPuts(key) # << >>) =>
            cache[key].payload
              = Text(FinishedPuts(key)[Len(FinishedPuts(key))].args.by)

\* An entry holds only what puts to its own key wrote.
KeysApart ==
    \A key \in DOMAIN cache :
        \A k \in 1..Len(cache[key].payload) :
            \/ cache[key].payload[k] = Hole
            \/ cache[key].payload[k].by \in PuttingTo(key)
            \/ \E n \in 1..Len(FinishedPuts(key)) :
                 FinishedPuts(key)[n].args.by = cache[key].payload[k].by

\* C26: with two processes putting and getting at once, a get on a key
\* returns absent or the complete payload of one put to it and never fails;
\* once the puts to a key have finished its entry holds the complete payload
\* of the put that finished last; and operations on different keys do not
\* touch each other's entries.
C26_SameKeyRaces == GetsAreWhole /\ LastPutWins /\ KeysApart

\* delete_by_query / archive_by_query is over after an answer other than yes.
Declined ==
    /\ tool = "clean"
    /\ pc = "done"
    /\ confirm # None
    /\ ~Confirmed(confirm[1])

\* C27: a mutation that was not confirmed returns to its caller an outcome
\* with attempted = the number of identifiers, succeeded = 0 and exactly one
\* failure record, which says that the caller aborted.
C27_DeclinedOutcome ==
    Declined =>
        ret = Some([ attempted |-> Len(ids), succeeded |-> 0,
                     failures |-> << "aborted by the caller" >> ])

\* A digest invoked with --fresh is running or over.
FreshDigest == cmd = "digest" /\ opts[1].fresh

\* The keys a digest can read or write in its two caches
DigestKeys ==
    { CacheKey("in:inbox", DigestLimit) }
    \cup { BatchCacheKey(b) : b \in SeqsUpTo({ AIMessage(1), AIMessage(2) }, 2) }

ScoreCalls == SelectSeq(calls, LAMBDA c : c.op = "create")

\* The entry under key was put by the running digest: it is the list this
\* run fetched, or the analyses this run computed for that list.
PutByThisRun(key) ==
    \/ /\ key = CacheKey(query, limit[1])
       /\ pc \in { "dg_analyze", "done", "raised" }
       /\ cache[key].payload = messages
    \/ /\ key = BatchCacheKey(Take(messages, limit[1]))
       /\ pc \in { "done", "raised" }
       /\ Len(ScoreCalls) = Len(cache[key].payload)
       /\ cache[key].payload = [ n \in 1..Len(items) |-> ToDict(items[n]) ]

\* C28: after clear_cache every get on every key of the message cache and of
\* the analysis cache returns absent until a put of the same run; the puts
\* of the run succeed as usual; so a digest invoked with --fresh lists and
\* fetches over the network and scores every message it fetched, whatever
\* was cached before.
C28_ClearCache ==
    FreshDigest =>
        /\ pc = "dg_generate" =>
             \A key \in DigestKeys :
                /\ GetCachedEmails(key, now) = None
                /\ GetCachedAnalyses(key, now) = None
        /\ \A key \in DOMAIN cache : PutByThisRun(key)
        /\ pc \notin { "dg_generate", "dg_list" } => (calls # << >> /\ calls[1].op = "list")
        /\ (pc = "done" /\ ret # None) =>
             /\ Len(ScoreCalls) = Len(messages)
             /\ CacheKey(query, limit[1]) \in DOMAIN cache
             /\ BatchCacheKey(Take(messages, limit[1])) \in DOMAIN cache

\* A digest was made during the second invocation, with --fresh, in the
\* same second as the first, whose two cache files clear_cache removed.
C28_Witness ==
    /\ FreshDigest
    /\ runs = 2
    /\ now = 0
    /\ j = 2
    /\ pc = "done"
    /\ ret # None

\* C29: the step in which the list call of get_emails fails or finds no
\* message ends get_emails with [] and leaves the cache as it was; so does a
\* batch_analyze that returns no analysis; and a step that creates or
\* changes an entry is the last step of a call, which returns to its caller
\* the payload it wrote.
C29_PutOnlyAfterProduce ==
    [][ /\ (pc = "ge_list" /\ pc' # "ge_get") =>
             (cache' = cache /\ messages' = << >>)
        /\ (cmd' = "batch_analyze" /\ pc' = "done" /\ ret' = Some(<< >>)) =>
             cache' = cache
        /\ \A k \in DOMAIN cache' :
             (k \notin DOMAIN cache \/ cache'[k] # cache[k]) =>
                IF cmd' = "preview"
                THEN /\ pc = "ge_get"
                     /\ pc' \in { "done", "cli_confirm" }
                     /\ messages' = cache'[k].payload
                ELSE /\ pc = "ba_analyze"
                     /\ pc' = "done"
                     /\ ret'[1] # << >>
                     /\ ret'[1] = [ n \in 1..Len(cache'[k].payload) |->
                                      FromDict(cache'[k].payload[n]) ] ]_vars

\* The list call of the second preview of a session failed, one TTL after
\* the first preview cached its messages: the preview is over without
\* messages and the old entry is still there.
C29_Witness ==
    /\ cmd = "preview"
    /\ pc = "done"
    /\ Len(calls) = 1
    /\ ~calls[1].ok
    /\ messages = << >>
    /\ CacheKey(query, MaxResults(opts[1])) \in DOMAIN cache
    /\ cache[CacheKey(query, MaxResults(opts[1]))].payload # << >>
    /\ cache[CacheKey(query, MaxResults(opts[1]))].mtime < now

\* The batches batch_analyze can compute a key for: the inputs cut to a limit
CutBatches == { Take(msgs, lim) : msgs \in SessionInputs, lim \in SessionLimits }

\* First message id, last message id and count of a batch that is not empty
Shape(ms) == << ms[1].id, ms[Len(ms)].id, Len(ms) >>

\* First message id, last message id and count of a list of stored analyses
StoredShape(payload) ==
    << payload[1].message_id, payload[Len(payload)].message_id, Len(payload) >>

\* C30: two batches have the same cache key exactly when they have the same
\* first message id, last message id and count, whatever lies between; every
\* entry is stored under the key of the shape of its analyses; and a batch
\* that is served from the cache gets the analyses stored for a batch of its
\* own shape, so that batches of different shape never share an entry; a
\* batch is scored only while no entry younger than the TTL is stored for
\* its shape.
C30_BatchFingerprint ==
    /\ \A b1 \in CutBatches \ { << >> }, b2 \in CutBatches \ { << >> } :
         (BatchCacheKey(b1) = BatchCacheKey(b2)) <=> (Shape(b1) = Shape(b2))
    /\ \A b \in CutBatches \ { << >> } : BatchCacheKey(b) # BatchCacheKey(<< >>)
    /\ cmd = "batch_analyze" =>
         /\ \A key \in DOMAIN cache :
              \E b \in CutBatches \ { << >> } :
                 /\ key = BatchCacheKey(b)
                 /\ StoredShape(cache[key].payload) = Shape(b)
         /\ Hit =>
              /\ StoredShape(cache[BatchKey].payload) = Shape(Take(messages, limit[1]))
              /\ ret[1] = [ n \in 1..Len(cache[BatchKey].payload) |->
                              FromDict(cache[BatchKey].payload[n]) ]
         /\ pc = "ba_analyze" =>
              \A key \in DOMAIN cache :
                 StoredShape(cache[key].payload) = Shape(Take(messages, limit[1]))
                 => now - cache[key].mtime >= EmailAI_cache_ttl

\* A later batch_analyze of a session was handed messages 2, 4, 3 while
\* the analyses of messages 2, 1, 3 were stored and fresh: it returned those,
\* the second of which is of message 1.
C30_Witness ==
    /\ cmd = "batch_analyze"
    /\ Hit
    /\ Len(messages) = 3
    /\ limit[1] >= 3
    /\ messages[2].id = 4
    /\ ret[1][2].message_id = 1

\* The (query, max_results) pairs get_emails is called with by inboxy preview.
CalledPairs ==
    { << q, MaxResults(o) >> : q \in { "in:inbox", "all" }, o \in PreviewOptions }

\* The pair of the get_emails call of the invocation that runs after the step.
RunningPair == << query', MaxResults(opts'[1]) >>

\* The step is an invocation that was handed a cached list by get_emails.
ServedFromCache ==
    /\ AtShell
    /\ cmd' = "preview"
    /\ runs' = runs + 1
    /\ pc' # "ge_list"

\* The entry of the pair in the directory dir, None when there is none.
EntryIn(dir, pair) ==
    IF CacheKey(pair[1], pair[2]) \in DOMAIN dir
    THEN Some(dir[CacheKey(pair[1], pair[2])])
    ELSE None

EntryOf(pair) == EntryIn(cache, pair)

\* C31: the message cache is keyed by (query, max_results). A get_emails call
\* that writes the cache changes the entry of its own pair only, the entries
\* of every other pair staying as they were; a call that is handed a cached
\* list is handed the payload of the entry of its own pair, which is fresh
\* and holds no more than max_results messages; and two pairs have the same
\* key only when they are the same pair.
C31_KeyedByQueryAndLimit ==
    [][ /\ cmd' = "preview" /\ cache' # cache =>
             /\ \A pair \in CalledPairs \ { RunningPair } :
                    EntryIn(cache', pair) = EntryOf(pair)
             /\ EntryIn(cache', RunningPair) = Some([ payload |-> messages', mtime |-> now ])
        /\ ServedFromCache =>
             /\ EntryIn(cache, RunningPair) # None
             /\ now' - EntryIn(cache, RunningPair)[1].mtime < cache_ttl
             /\ messages' = EntryIn(cache, RunningPair)[1].payload
             /\ Len(messages') <= RunningPair[2]
        /\ \A p1 \in CalledPairs, p2 \in CalledPairs :
               CacheKey(p1[1], p1[2]) = CacheKey(p2[1], p2[2]) => p1 = p2
      ]_vars

\* get_emails("all", 20) goes to the provider while the one message that
\* get_emails("all", 1) cached out of a mailbox of two is fresh.
C31_Witness ==
    /\ tool = "preview"
    /\ cmd = "preview"
    /\ pc = "ge_list"
    /\ query = "all"
    /\ MaxResults(opts[1]) = 20
    /\ Cardinality(DOMAIN mailbox) = 2
    /\ EntryOf(<< "all", 1 >>) # None
    /\ Len(EntryOf(<< "all", 1 >>)[1].payload) = 1
    /\ EntryOf(<< "all", 1 >>)[1].mtime = now

\* The n-th member of the group of domain, in the order of the analyses
Member_n(domain, n) ==
    CHOOSE k \in GroupMembers(domain) :
        Cardinality({ m \in GroupMembers(domain) : m <= k }) = n

RECURSIVE SumOfCounts(_)
SumOfCounts(groups) ==
    IF groups = << >> THEN 0 ELSE Head(groups).count + SumOfCounts(Tail(groups))

\* The groups the deletable analyses were put in (sender_groups)
Grouping == SenderGroups(Deletable(items))

\* C32: in a digest that was assembled, every deletable analysis is in
\* exactly one sender group and no other analysis is in any, the group being
\* that of its sender's domain; each group listed has as count the number
\* of deletable analyses of its domain; the counts of the groups listed add
\* up to no more than delete_count; and the samples of a group are its first
\* min(3, count) members in the order of the analyses.
C32_DeleteGroupContents ==
    Prepared =>
        LET groups == ret[1].delete_groups
        IN  /\ \A k \in 1..Len(items) :
                 Cardinality({ << g, n >> \in (1..Len(Grouping)) \X (1..Len(items)) :
                     /\ n <= Len(Grouping[g].emails)
                     /\ Grouping[g].emails[n].message_id = items[k].message_id })
                 = IF k \in DeletablePositions THEN 1 ELSE 0
            /\ \A g \in 1..Len(Grouping) :
                 { Grouping[g].emails[n].message_id : n \in 1..Len(Grouping[g].emails) }
                 = { items[k].message_id : k \in GroupMembers(Grouping[g].domain) }
            /\ \A g \in 1..Len(groups) :
                 LET domain == GroupDomain(groups[g])
                 IN  /\ groups[g].count = Cardinality(GroupMembers(domain))
                     /\ Len(groups[g].samples) = Min(3, groups[g].count)
                     /\ \A n \in 1..Len(groups[g].samples) :
                          /\ groups[g].samples[n].gmail_link =
                               GmailLink(items[Member_n(domain, n)].message_id)
                          /\ groups[g].samples[n].subject =
                               items[Member_n(domain, n)].subject
            /\ SumOfCounts(groups) <= ret[1].delete_count

\* Five messages of a.com, one of b.com and three of c.com were grouped:
\* the group of a.com lists its first
\* three of five, and the one message of b.com is counted but in no group.
C32_Witness ==
    /\ Prepared
    /\ items = FiveOneThree
    /\ ret[1].delete_groups[1].count = 5
    /\ Len(ret[1].delete_groups[1].samples) = 3
    /\ ret[1].delete_groups[1].samples[3].gmail_link = GmailLink(3)
    /\ SumOfCounts(ret[1].delete_groups) = 8
    /\ ret[1].delete_count = 9

\* get_emails has returned to preview and preview has issued no mutation call
\* of its own yet: messages is the list that get_emails returned.
ListingReturned ==
    /\ cmd = "preview"
    /\ pc \in { "cli_confirm", "done" }
    /\ MutationCalls = << >>

\* C33 (as claimed): a list that get_emails returns holds no message that an
\* earlier confirmed delete or archive of the session took out of the result
\* of the query: every message of it is in the mailbox and matches the query
\* (in a session the mailbox changes by the session's mutations only).
C33_NoStaleListing ==
    ListingReturned =>
        \A k \in 1..Len(messages) :
            /\ messages[k].id \in DOMAIN mailbox
            /\ Matches(query, messages[k].id)

\* The list calls of the running invocation that returned.
ListCalls == SelectSeq(calls, LAMBDA c : c.op = "list" /\ c.ok)

\* C34 (as claimed): every identifier sent in a mutation call, by preview
\* --delete / --archive and by delete_by_query / archive_by_query, was
\* returned by a list call that the same invocation issued: the invocation
\* has a list call that returned, and the identifier is among those it
\* collected from its list calls.
C34_FreshListing ==
    \A c \in 1..Len(MutationCalls) :
        /\ ListCalls # << >>
        /\ \A k \in 1..Len(MutationCalls[c].args.ids) :
             MutationCalls[c].args.ids[k] \in Range(ids)

\* preview --delete / --archive was confirmed at its prompt.
CliConfirmed ==
    /\ cmd = "preview"
    /\ confirm = Some(TRUE)

\* C35: in a confirmed preview --delete / --archive the mutation calls issued
\* so far are one call per message for the first messages of the list that
\* get_emails returned, in the order of the list, whatever the outcomes of
\* the calls; when the invocation is over every message of the list has had
\* its call; the list has at most 500 messages; and it is the list for
\* max_results = 500 whatever --limit is: a list call of the invocation asks
\* for 500 and collects the first 500 matching messages, a cached list is the
\* entry of (query, 500).
C35_PreviewMutationScope ==
    /\ CliConfirmed =>
         /\ LET sent == MutationCalls
            IN  /\ Len(sent) <= Len(messages)
                /\ \A k \in 1..Len(sent) : sent[k].args.ids = << messages[k].id >>
                /\ pc = "done" => Len(sent) = Len(messages)
         /\ Len(messages) <= CliMutateMax
         /\ \A k \in 1..Len(calls) :
              calls[k].op = "list" => calls[k].args.maxResults = CliMutateMax
         /\ ListCalls = << >> =>
              messages = EntryOf(<< query, CliMutateMax >>)[1].payload
    /\ (cmd = "preview" /\ pc = "cli_confirm" /\ ListCalls # << >>) =>
         /\ ids = Take(Matching(query), CliMutateMax)
         /\ Len(messages) <= Len(ids)
         /\ LET listed == Range(ids)
            IN  \A k \in 1..Len(messages) : messages[k].id \in listed

\* preview --delete --limit 1 on 501 messages is over: 500 delete calls were
\* issued, the first of which failed, and two messages are left.
C35_Witness ==
    /\ CliConfirmed
    /\ pc = "done"
    /\ opts[1].limit = 1
    /\ opts[1].delete
    /\ Len(messages) = CliMutateMax
    /\ Len(MutationCalls) = CliMutateMax
    /\ ~MutationCalls[1].ok
    /\ MutationCalls[2].ok
    /\ DOMAIN mailbox = { MaxSmall, MaxSmall + CliMutateMax }

\* The list calls of list_message_ids so far: one call per page consumed, the
\* first without a page token and each later one with the token that the
\* response to the call before it carried; no call after a failed one; and no
\* call after the identifiers collected reached a positive limit.
OneCallPerPage ==
    cmd = "list_message_ids" =>
        /\ Len(calls) <= Len(pages)
        /\ \A k \in 1..Len(calls) :
             /\ calls[k].op = "list"
             /\ k = 1 => calls[k].args.pageToken = None
             /\ k > 1 =>
                  /\ calls[k - 1].ok
                  /\ ProviderList(calls[k - 1].args.pageToken).nextPageToken # None
                  /\ calls[k].args.pageToken =
                       ProviderList(calls[k - 1].args.pageToken).nextPageToken
                  /\ ~(limit # None /\ limit[1] > 0 /\ Total(k - 1) >= limit[1])
        /\ (pc = "done" /\ Len(calls) < Len(pages)) =>
             (limit # None /\ limit[1] > 0 /\ Total(Len(calls)) >= limit[1])

\* C36: for a provider with finitely many pages list_message_ids comes to an
\* end (it returns, or the error of a list call leaves it), and its list calls
\* are at every point one per page consumed, chained by the page tokens, with
\* none issued once a positive limit is reached.
C36_ListingTerminates ==
    /\ []OneCallPerPage
    /\ <>(pc \in { "done", "raised" })

\* list_message_ids returned after one call: the first of two pages held as
\* many identifiers as the limit.
C36_Witness ==
    /\ cmd = "list_message_ids"
    /\ pc = "done"
    /\ limit = Some(2)
    /\ Len(pages) = 2
    /\ Len(pages[1]) = 2
    /\ Len(calls) = 1
    /\ ret = Some(pages[1])

\* C37: in every digest that was assembled urgent_count is the number of
\* entries of urgent_items, and so at most 5, however many analyses satisfy
\* the urgent rule.
C37_UrgentCount ==
    Prepared =>
        /\ ret[1].urgent_count = Len(ret[1].urgent_items)
        /\ ret[1].urgent_count <= 5

\* Twelve analyses that all satisfy the urgent rule were assembled: five are
\* listed and counted.
C37_Witness ==
    /\ Prepared
    /\ Cardinality({ k \in 1..Len(items) : Qualifies(items[k]) }) = 12
    /\ Len(ret[1].urgent_items) = 5
    /\ ret[1].urgent_count = 5

\* The attributes of an analysis that to_dict writes
SerializedFields ==
    { "message_id", "subject", "sender", "date", "category", "priority",
      "summary", "action_needed", "suggested_response", "calendar_event",
      "key_points", "sentiment" }

\* The two analyses agree on every attribute that is written.
SameAnalysis(a, b) == \A f \in SerializedFields : a[f] = b[f]

\* C38: every analysis that analyze_email or batch_analyze has computed or
\* returned is given back by from_dict(to_dict(a)) with the same message_id,
\* subject, sender, date, category, priority, summary, action_needed,
\* suggested_response, calendar_event, key_points and sentiment; and the
\* batch that a batch_analyze has just written is read back from the cache
\* as the batch it returns, analysis by analysis.
C38_AnalysisRoundTrip ==
    /\ cmd \in { "analyze_email", "batch_analyze" } =>
        \A k \in 1..Len(items) : SameAnalysis(FromDict(ToDict(items[k])), items[k])
    /\ cmd = "batch_analyze" =>
        /\ ret # None =>
             \A k \in 1..Len(ret[1]) : SameAnalysis(FromDict(ToDict(ret[1][k])), ret[1][k])
        /\ (pc = "done" /\ ~Hit /\ BatchSize > 0) =>
             LET back == GetCachedAnalyses(BatchKey, now)
             IN  /\ back # None
                 /\ Len(back[1]) = Len(ret[1])
                 /\ \A k \in 1..Len(ret[1]) : SameAnalysis(back[1][k], ret[1][k])

\* A batch of two was written and returned: the first analysis carries a
\* calendar event with a date and no time, an action and a key point, the
\* second is the fallback.
C38_Witness ==
    /\ cmd = "batch_analyze"
    /\ pc = "done"
    /\ ~Hit
    /\ Len(ret[1]) = 2
    /\ ret[1][1].calendar_event =
         Some([ title |-> "Review", date |-> Some("Monday"),
                time |-> None, location |-> None ])
    /\ ret[1][1].category.name = "NEWSLETTER"
    /\ ret[1][1].action_needed = Some("reply")
    /\ ret[1][2].summary = "Unable to analyze email"
    /\ ResultStored


=============================================================================
